---------------------------- MODULE Spec2Model ----------------------------
(***************************************************************************)
(* Model of the Nokia NSP Ansible collection's IBN module                  *)
(* (plugins/modules/ibn.py): the intent reconciliation handlers           *)
(* handle_add_intent, handle_delete_intent and handle_delete_intent_type,  *)
(* run one request at a time against a remote intent store.                *)
(***************************************************************************)
EXTENDS Integers, Sequences, FiniteSets, TLC

(***************************************************************************)
(* Bounds                                                                  *)
(***************************************************************************)
MaxCalls == 2        \* invocations of the module in one behaviour
MaxVersion == 2      \* intent-type versions 1..MaxVersion
PageSize == 2        \* "page-size" of the search request, scaled down from 1000
MaxLen == 2          \* length of the sequences in the compared documents
MaxDepth == 2        \* levels of nesting put around the compared documents
MaxEntries == 2      \* entries of an error envelope
MaxViews == 2        \* .viewConfig files of a bundle

Versions == 1..MaxVersion
TargetOrder == <<"cid001", "cid002", "cid003">>   \* the order the remote lists intents in
Targets == {TargetOrder[i] : i \in 1..Len(TargetOrder)}
DesiredStates == {"active", "suspend", "delete"}
Performs == {"none", "audit", "synchronize"}

(***************************************************************************)
(* JSON documents as Python values                                         *)
(***************************************************************************)
PyNone == [t |-> "none"]
PyBool(b) == [t |-> "bool", v |-> b]
PyInt(n) == [t |-> "int", v |-> n]
PyStr(s) == [t |-> "str", v |-> s]
PyList(s) == [t |-> "list", v |-> s]
PyDict(items) == [t |-> "dict", v |-> items]   \* items: <<key, value>> in insertion order
PyTuple(s) == [t |-> "tuple", v |-> s]

\* Python's order on the str keys used by the documents of this model
KeyOrder == <<"admin-state", "description", "mtu">>
KeyRank(k) == CHOOSE i \in 1..Len(KeyOrder) : KeyOrder[i] = k

\* Python ==
RECURSIVE PyEq(_, _)
PyEq(x, y) ==
    LET num(z) == IF z.t = "bool" THEN (IF z.v THEN 1 ELSE 0) ELSE z.v
        isNum(z) == z.t \in {"bool", "int"}
    IN  IF isNum(x) /\ isNum(y) THEN num(x) = num(y)
        ELSE IF x.t # y.t THEN FALSE
        ELSE IF x.t = "none" THEN TRUE
        ELSE IF x.t = "str" THEN x.v = y.v
        ELSE \* list, dict items or tuple: element-wise
             /\ Len(x.v) = Len(y.v)
             /\ \A i \in 1..Len(x.v) :
                  IF x.t = "dict"
                  THEN \E j \in 1..Len(y.v) :
                         x.v[i][1] = y.v[j][1] /\ PyEq(x.v[i][2], y.v[j][2])
                  ELSE PyEq(x.v[i], y.v[i])

\* sorted() of a sequence of (key, value) tuples with pairwise distinct str keys
RECURSIVE sorted(_)
sorted(s) ==
    IF Len(s) = 0 THEN <<>>
    ELSE LET m == CHOOSE i \in 1..Len(s) :
                    \A j \in 1..Len(s) : KeyRank(s[i].v[1].v) <= KeyRank(s[j].v[1].v)
             rest == [k \in 1..(Len(s) - 1) |-> IF k < m THEN s[k] ELSE s[k + 1]]
         IN  <<s[m]>> \o sorted(rest)

RECURSIVE _deep_sort_key(_)
_deep_sort_key(obj) ==
    IF obj.t = "none" THEN PyNone
    ELSE IF obj.t = "dict"
         THEN PyTuple(sorted([i \in 1..Len(obj.v) |->
                     PyTuple(<<PyStr(obj.v[i][1]), _deep_sort_key(obj.v[i][2])>>)]))
    ELSE IF obj.t = "list"
         THEN PyTuple([i \in 1..Len(obj.v) |-> _deep_sort_key(obj.v[i])])
    ELSE obj

\* sorted() orders the (key, value) tuples by their keys; it would compare two
\* values, and raise TypeError on values without an order, only under equal keys
RECURSIVE sorted_raises(_)
sorted_raises(obj) ==
    IF obj.t = "dict"
    THEN \/ \E i, j \in 1..Len(obj.v) : i # j /\ obj.v[i][1] = obj.v[j][1]
         \/ \E i \in 1..Len(obj.v) : sorted_raises(obj.v[i][2])
    ELSE IF obj.t = "list" THEN \E i \in 1..Len(obj.v) : sorted_raises(obj.v[i])
    ELSE FALSE

\* a comparison that also puts the elements of sequences in any order
_config_equal_anyorder(a, b) ==
    LET RECURSIVE eq(_, _)
        eq(x, y) ==
            IF x.t = "tuple" /\ y.t = "tuple"
            THEN /\ Len(x.v) = Len(y.v)
                 /\ \A i \in 1..Len(x.v) : \E j \in 1..Len(y.v) : eq(x.v[i], y.v[j])
                 /\ \A j \in 1..Len(y.v) : \E i \in 1..Len(x.v) : eq(x.v[i], y.v[j])
            ELSE PyEq(x, y)
    IN  eq(_deep_sort_key(a), _deep_sort_key(b))

\* a comparison of "a or None" with "b or None"
_config_equal_falsy(a, b) ==
    LET norm(x) == IF x.t \in {"dict", "list"} /\ Len(x.v) = 0 THEN PyNone ELSE x
    IN  PyEq(_deep_sort_key(norm(a)), _deep_sort_key(norm(b)))

_config_equal(a, b) == PyEq(_deep_sort_key(a), _deep_sort_key(b))


(***************************************************************************)
(* Inputs of the model                                                     *)
(***************************************************************************)
CfgEnable == PyDict(<< <<"admin-state", PyStr("enable")>>, <<"mtu", PyInt(1500)>> >>)
CfgEnableReordered == PyDict(<< <<"mtu", PyInt(1500)>>, <<"admin-state", PyStr("enable")>> >>)
CfgDisable == PyDict(<< <<"admin-state", PyStr("disable")>>, <<"mtu", PyInt(1500)>> >>)
Configs == {CfgEnable, CfgEnableReordered, CfgDisable}

\* the documents _config_equal is applied to: scalars, flat sequences and
\* mappings of scalars, and nested documents with both key orders at every level
Scalars == {PyNone, PyBool(TRUE), PyInt(1), PyInt(2), PyStr("1")}
Lists == {PyList(s) : s \in UNION {[1..k -> Scalars] : k \in 0..MaxLen}}
Dicts ==
    {PyDict(<<>>)}
    \cup {PyDict(<< <<k, v>> >>) : k \in {"admin-state", "mtu"}, v \in Scalars}
    \cup {PyDict(<< <<k[1], v1>>, <<k[2], v2>> >>) :
            k \in {<<"admin-state", "mtu">>, <<"mtu", "admin-state">>},
            v1 \in Scalars, v2 \in Scalars}
Dict12 == PyDict(<< <<"admin-state", PyInt(1)>>, <<"mtu", PyInt(2)>> >>)
Dict21 == PyDict(<< <<"mtu", PyInt(2)>>, <<"admin-state", PyInt(1)>> >>)
List12 == PyList(<<PyInt(1), PyInt(2)>>)
List21 == PyList(<<PyInt(2), PyInt(1)>>)
Wrap(d) == {PyList(<<d>>),
            PyDict(<< <<"description", PyInt(1)>>, <<"mtu", d>> >>),
            PyDict(<< <<"mtu", d>>, <<"description", PyInt(1)>> >>)}
RECURSIVE Nested(_)
Nested(n) ==
    IF n = 0 THEN {Dict12, Dict21, List12, List21}
    ELSE LET inner == Nested(n - 1) IN inner \cup UNION {Wrap(d) : d \in inner}
Docs == Scalars \cup Lists \cup Dicts \cup Nested(MaxDepth)

\* a remote intent record; state "unset" is a record without required-network-state
Absent == [present |-> FALSE]
Intent(ver, data, st) == [present |-> TRUE, version |-> ver, data |-> data, state |-> st]
RemoteIntents == {Absent} \cup
    {Intent(ver, d, st) : ver \in Versions, d \in Configs, st \in DesiredStates \cup {"unset"}}

NoArgs == [operation |-> "none"]
AddIntentArgs ==
    [operation : {"add_intent"}, target : Targets, version : Versions, config : Configs,
     desired_state : DesiredStates, perform : Performs]
DeleteIntentArgs ==
    [operation : {"delete_intent"}, target : Targets, remove_from_network : BOOLEAN]
DeleteIntentTypeArgs ==
    [operation : {"delete_intent_type"}, version : Versions, force : BOOLEAN]
UploadArgs == [operation : {"upload_intent_type"}]

\* the folder params["path"] names: what the path is, meta-info.json, the two
\* script files, the yang-modules folder ("hidden": it holds dot files only),
\* the .viewConfig files of views/ and the <target>.json files of intents/,
\* and whether the last view file cannot be read or the last intent file is
\* no JSON ("broken")
BundledIntents == {<<>>, <<"cid001">>, <<"cid001", "cid003">>}
Bundles ==
    {b \in [present : {TRUE},
            path : {"missing", "directory", "meta-info.json", "other_file"},
            meta : {"missing", "unparsable", "no_intent_type", "no_version", "ok"},
            version : Versions,
            script_js : BOOLEAN, script_mjs : BOOLEAN,
            yang : {"missing", "empty", "hidden", "modules"},
            views : 0..MaxViews,
            intents : BundledIntents,
            broken : {"none", "view", "intent"}] :
        /\ b.path = "meta-info.json" => b.meta # "missing"
        /\ b.path = "missing" => b.meta = "missing"
        /\ b.broken = "view" => b.views > 0
        /\ b.broken = "intent" => b.intents # <<>>
        /\ b.broken # "none" =>
              (b.path = "directory" /\ b.meta = "ok" /\ b.script_js /\ ~b.script_mjs
               /\ b.yang = "modules")}

(***************************************************************************)
(* State                                                                   *)
(***************************************************************************)
VARIABLES
    intents,         \* remote: target -> intent record of the one intent-type
    catalog,         \* remote: versions of the intent-type in the catalog
    pc,              \* position of the running invocation
    args,            \* module.params of the running invocation
    callNo,          \* number of invocations started
    existing_data,   \* handle_add_intent / handle_delete_intent local
    existing_state,  \* handle_add_intent local
    changed,         \* handle_add_intent local
    msg,             \* handle_add_intent local
    targets,         \* handle_delete_intent_type local: targets the search returned
    idx,             \* handle_delete_intent_type local: position of "for tgt in targets"
    log,             \* requests sent by the running invocation, in order
    before,          \* the remote intents when the running invocation started
    result,          \* what exit_json / fail_json reported
    prev,            \* outcome of the previous invocation
    bundle,          \* the intent-type folder on the controller (upload_intent_type)
    eval,            \* a helper function applied on its own: arguments and return value
    other,           \* a second invocation running at the same time: its own locals
    workflow,        \* remote: the workflow of the Workflow Manager (wfm module)
    token,           \* HttpApi.token of the httpapi plugin: "None" or the access token
    _auth            \* connection._auth: <<>> for None, or the Authorization header

vars == <<intents, catalog, pc, args, callNo, existing_data, existing_state, changed, msg,
          targets, idx, log, before, result, prev, bundle, eval, other, workflow,
          token, _auth>>

remote == <<intents, catalog>>
locals == <<existing_data, existing_state, changed, msg, targets, idx>>
session == <<token, _auth>>

NoResult == [failed |-> FALSE, keys |-> {}, changed |-> FALSE, msg |-> "", count |-> 0]
NoPrev == [valid |-> FALSE]
NoBundle == [present |-> FALSE]
NoEval == [fn |-> "none"]
NoFrame == [pc |-> "none"]
NoWorkflow == [present |-> FALSE]

\* one request of the log
Req(method, path, target, body, rsp) ==
    [method |-> method, path |-> path, target |-> target, body |-> body, rsp |-> rsp]
Ok(r) == r.rsp \in {"ok", "ok_raw"}

\* requests that create, update or delete a remote resource
IsWrite(r) == r.path \in {"IBN_DATA", "intent", "intent-specific-data", "catalog",
                           "CATALOG_ROOT", "VIEW_CONFIG"}
              /\ r.method \in {"POST", "PUT", "PATCH", "DELETE"}
WritesOf(l) == {i \in 1..Len(l) : IsWrite(l[i])}

(***************************************************************************)
(* The remote side: what a request can be answered with                    *)
(***************************************************************************)
\* GET of a resource: the body, a not-found answer (as an exception whose text
\* holds "404", or as an error envelope in the body), or a transport failure
GetResponses(present) ==
    IF present THEN {"ok", "exc_other"} ELSE {"exc_404", "body_not_found", "exc_other"}
\* a write: accepted, or refused / lost with no effect
WriteResponses == {"ok", "exc"}
\* an audit / synchronize action: output (a dict, or a body that is no dict),
\* an error envelope in a 2xx body, or an exception of the transport
OperationResponses == {"ok", "ok_raw", "error_body", "exc"}
\* the search: page 0 of the matching intents, or an exception
SearchResponses == {"ok", "exc"}

RECURSIVE SelectSeq2(_, _)
SelectSeq2(s, keep) ==
    IF s = <<>> THEN <<>>
    ELSE (IF Head(s) \in keep THEN <<Head(s)>> ELSE <<>>) \o SelectSeq2(Tail(s), keep)

\* targets of the intents of (intent_type, version), in the remote's order
Matching(ver) ==
    SelectSeq2(TargetOrder, {t \in Targets : intents[t].present /\ intents[t].version = ver})
\* page "page-number" 0 of "page-size" entries
Page0(s) == SubSeq(s, 1, IF Len(s) < PageSize THEN Len(s) ELSE PageSize)

(***************************************************************************)
(* Readers and the operation runner                                        *)
(***************************************************************************)
\* intent_get reading the config under a key the answer does not carry
intent_get_nodata(rsp, body) ==
    IF rsp = "exc_other" THEN [raised |-> TRUE]
    ELSE IF rsp \in {"exc_404", "body_not_found"}
         THEN [raised |-> FALSE, data |-> PyNone, state |-> "None"]
    ELSE [raised |-> FALSE, data |-> PyDict(<<>>),
          state |-> IF body.state = "unset" THEN "None" ELSE body.state]

\* intent_get reading the state under a key the answer does not carry
intent_get_nostate(rsp, body) ==
    IF rsp = "exc_other" THEN [raised |-> TRUE]
    ELSE IF rsp \in {"exc_404", "body_not_found"}
         THEN [raised |-> FALSE, data |-> PyNone, state |-> "None"]
    ELSE [raised |-> FALSE,
          data |-> IF body.data.t = "dict" /\ Len(body.data.v) > 0
                   THEN body.data ELSE PyDict(<<>>),
          state |-> "None"]

\* intent_get without the is_restconf_not_found_response test of the body
intent_get_body404(rsp, body) ==
    IF rsp = "exc_other" THEN [raised |-> TRUE]
    ELSE IF rsp = "exc_404"
         THEN [raised |-> FALSE, data |-> PyNone, state |-> "None"]
    ELSE IF rsp = "body_not_found"
         THEN [raised |-> FALSE, data |-> PyDict(<<>>), state |-> "None"]
    ELSE [raised |-> FALSE,
          data |-> IF body.data.t = "dict" /\ Len(body.data.v) > 0
                   THEN body.data ELSE PyDict(<<>>),
          state |-> IF body.state = "unset" THEN "None" ELSE body.state]

\* intent_get taking every exception of the read for "not found"
intent_get_swallow(rsp, body) ==
    IF rsp \in {"exc_other", "exc_404", "body_not_found"}
    THEN [raised |-> FALSE, data |-> PyNone, state |-> "None"]
    ELSE [raised |-> FALSE,
          data |-> IF body.data.t = "dict" /\ Len(body.data.v) > 0
                   THEN body.data ELSE PyDict(<<>>),
          state |-> IF body.state = "unset" THEN "None" ELSE body.state]

intent_get(rsp, body) ==
    IF rsp = "exc_other" THEN [raised |-> TRUE]
    ELSE IF rsp \in {"exc_404", "body_not_found"}
         THEN [raised |-> FALSE, data |-> PyNone, state |-> "None"]
    ELSE [raised |-> FALSE,
          data |-> IF body.data.t = "dict" /\ Len(body.data.v) > 0
                   THEN body.data ELSE PyDict(<<>>),
          state |-> IF body.state = "unset" THEN "None" ELSE body.state]

\* _resource_exists taking every answer that is no exception for a resource
_resource_exists_any(rsp) ==
    IF rsp = "exc_other" THEN [raised |-> TRUE]
    ELSE [raised |-> FALSE, exists |-> TRUE]

_resource_exists(rsp) ==
    IF rsp = "exc_other" THEN [raised |-> TRUE]
    ELSE [raised |-> FALSE, exists |-> rsp = "ok"]

\* _run_intent_operation letting the exception of the transport through
_run_intent_operation_reraise(rsp) ==
    IF rsp = "ok" THEN [raised |-> FALSE, error |-> FALSE, via |-> "output"]
    ELSE IF rsp = "ok_raw" THEN [raised |-> FALSE, error |-> FALSE, via |-> "raw"]
    ELSE IF rsp = "error_body" THEN [raised |-> FALSE, error |-> TRUE, via |-> "body"]
    ELSE [raised |-> TRUE, error |-> FALSE, via |-> "exception"]

\* _run_intent_operation without the is_restconf_error_response test of a 2xx body
_run_intent_operation_no2xx(rsp) ==
    IF rsp \in {"ok", "error_body"} THEN [raised |-> FALSE, error |-> FALSE, via |-> "output"]
    ELSE IF rsp = "ok_raw" THEN [raised |-> FALSE, error |-> FALSE, via |-> "raw"]
    ELSE [raised |-> FALSE, error |-> TRUE, via |-> "exception"]

\* lines 377-396: the result dict; error is set for an error envelope in the
\* body (line 392) and for an exception (line 396), which is never re-raised
_run_intent_operation(rsp) ==
    IF rsp = "ok" THEN [raised |-> FALSE, error |-> FALSE, via |-> "output"]
    ELSE IF rsp = "ok_raw" THEN [raised |-> FALSE, error |-> FALSE, via |-> "raw"]
    ELSE IF rsp = "error_body" THEN [raised |-> FALSE, error |-> TRUE, via |-> "body"]
    ELSE [raised |-> FALSE, error |-> TRUE, via |-> "exception"]

(***************************************************************************)
(* How an invocation ends                                                  *)
(***************************************************************************)
\* module.exit_json(**result)
exit_json(keys, ch, m) ==
    [failed |-> FALSE, keys |-> keys \cup {"changed", "msg"}, changed |-> ch, msg |-> m,
     count |-> 0]
\* module.fail_json(msg=..., **kwargs): no "changed" key unless passed
fail_json(keys, m, n) ==
    [failed |-> TRUE, keys |-> keys \cup {"failed", "msg"}, changed |-> FALSE, msg |-> m,
     count |-> n]
\* main: except Exception -> fail_json(msg="IBN module error: ...")
main_error == fail_json({}, "IBN module error", 0)

_fail_on_operation_error(operation) ==
    fail_json({"intent_type", "target", "operation", "sync_result", "audit_result"},
              "IBN " \o operation \o " failed", 0)

\* the parameters a failure message is formatted with, besides the text of the
\* exception or of the operation's error
msg_fields(m) ==
    IF m \in {"IBN audit failed", "IBN synchronize failed"} THEN {"intent_type", "target"}
    ELSE IF m = "has intents" THEN {"intent_type", "version"}
    ELSE IF m = "Failed to delete intent" THEN {"target"}
    ELSE {}    \* "IBN module error: {e}", "Failed to delete intent-type: {e}"

Finish(res) == /\ pc' = "done"
               /\ result' = res

(***************************************************************************)
(* Invocations                                                             *)
(***************************************************************************)
FirstPc(a) == CASE a.operation = "add_intent" -> "add_intent:get"
                [] a.operation = "delete_intent" -> "delete_intent:get"
                [] a.operation = "delete_intent_type" -> "delete_intent_type:exists"
                [] a.operation = "upload_intent_type" -> "upload:local"
                [] a.operation \in {"define", "upload"} -> "wfm:local"
                [] a.operation \in {"execute", "delete"} -> "wfm:resolve"
                [] a.operation = "rest" -> "rest:local"

Begin(a) ==
    /\ args' = a
    /\ pc' = FirstPc(a)
    /\ callNo' = callNo + 1
    /\ log' = <<>>
    /\ result' = NoResult
    /\ existing_data' = PyNone
    /\ existing_state' = "None"
    /\ changed' = FALSE
    /\ msg' = ""
    /\ targets' = <<>>
    /\ idx' = 1
    /\ before' = intents
    /\ UNCHANGED <<remote, bundle, eval, other, session, workflow>>

\* main of a first invocation, on an intent
StartIntentCall ==
    /\ pc = "idle"
    /\ \E a \in AddIntentArgs \cup DeleteIntentArgs : Begin(a)
    /\ prev' = NoPrev

\* main of a first invocation, on the intent-type
StartTypeCall ==
    /\ pc = "idle"
    /\ \E a \in DeleteIntentTypeArgs : Begin(a)
    /\ prev' = NoPrev

\* the same task run again, with nothing else writing in between
Repeat ==
    /\ pc = "done"
    /\ callNo < MaxCalls
    /\ Begin(args)
    /\ prev' = [valid |-> TRUE, result |-> result, log |-> log, before |-> before]

(***************************************************************************)
(* handle_add_intent                                                       *)
(***************************************************************************)
\* data_changed comparing the documents as serialized, key order included
data_changed_ordered(existing, config) == existing # config

\* line 422: data_changed = not _config_equal(existing_data, config)
data_changed(existing, config) == ~_config_equal(existing, config)
\* state_changed without the "active" default of a missing state
state_changed_nodefault(existing, desired) == existing # desired

\* line 423: state_changed = (existing_state or "active") != desired_state
state_changed(existing, desired) ==
    (IF existing = "None" THEN "active" ELSE existing) # desired

\* a create body that does not carry the config
IntentBody_noconfig(a) ==
    [target |-> a.target, intent_type_version |-> a.version,
     intent_specific_data |-> PyDict(<<>>), required_network_state |-> a.desired_state]

\* lines 406-414: the body of the create request
IntentBody(a) ==
    [target |-> a.target, intent_type_version |-> a.version,
     intent_specific_data |-> a.config, required_network_state |-> a.desired_state]
ConfigBody_empty(a) == [intent_specific_data |-> PyDict(<<>>)]
\* line 428: the body of the PUT on intent-specific-data
ConfigBody(a) == [intent_specific_data |-> a.config]
\* lines 436, 484: the body of the PATCH on the intent
StateBody(st) == [required_network_state |-> st]
\* the intent the remote stores for a create request
Created(body) ==
    Intent(body.intent_type_version, body.intent_specific_data, body.required_network_state)

\* lines 403-404, 422-424: read the intent and decide
AddIntentGet ==
    /\ pc = "add_intent:get"
    /\ \E rsp \in GetResponses(intents[args.target].present) :
         LET got == intent_get(rsp, intents[args.target]) IN
         /\ log' = Append(log, Req("GET", "intent", args.target, PyNone, rsp))
         /\ IF got.raised
            THEN /\ Finish(main_error)
                 /\ UNCHANGED <<existing_data, existing_state, changed, msg>>
            ELSE /\ existing_data' = got.data
                 /\ existing_state' = got.state
                 /\ result' = result
                 /\ IF got.data.t = "none"
                    THEN /\ pc' = "add_intent:create"
                         /\ UNCHANGED <<changed, msg>>
                    ELSE LET dc == data_changed(got.data, args.config)
                             sc == state_changed(got.state, args.desired_state)
                         IN  /\ changed' = (dc \/ sc)
                             /\ pc' = IF dc THEN "add_intent:put"
                                      ELSE IF sc THEN "add_intent:patch"
                                      ELSE "add_intent:perform"
                             /\ msg' = IF dc \/ sc THEN msg ELSE "unchanged"
    /\ UNCHANGED <<remote, args, callNo, before, bundle, eval, other, session, workflow, targets, idx, prev>>

\* lines 405-420: POST the full intent document
AddIntentCreate ==
    /\ pc = "add_intent:create"
    /\ \E rsp \in WriteResponses :
         LET ok == rsp = "ok" /\ ~intents[args.target].present
             ans == IF ok THEN "ok" ELSE "exc"
         IN
         /\ log' = Append(log, Req("POST", "IBN_DATA", args.target, IntentBody(args), ans))
         /\ IF ok
            THEN /\ intents' = [intents EXCEPT ![IntentBody(args).target] =
                                  Created(IntentBody(args))]
                 /\ changed' = TRUE
                 /\ msg' = "created"
                 /\ pc' = "add_intent:perform"
                 /\ result' = result
            ELSE /\ Finish(main_error)
                 /\ UNCHANGED <<intents, changed, msg>>
    /\ UNCHANGED <<catalog, args, callNo, before, bundle, eval, other, session, workflow, existing_data, existing_state, targets, idx, prev>>

\* lines 425-433: PUT the intent-specific-data sub-resource
AddIntentPut ==
    /\ pc = "add_intent:put"
    /\ \E rsp \in WriteResponses :
         LET ok == rsp = "ok" /\ intents[args.target].present
             ans == IF ok THEN "ok" ELSE "exc"
         IN
         /\ log' = Append(log, Req("PUT", "intent-specific-data", args.target,
                                   ConfigBody(args), ans))
         /\ IF ok
            THEN /\ intents' = [intents EXCEPT ![args.target].data =
                                  ConfigBody(args).intent_specific_data]
                 /\ result' = result
                 /\ IF state_changed(existing_state, args.desired_state)
                    THEN pc' = "add_intent:patch" /\ msg' = msg
                    ELSE pc' = "add_intent:perform" /\ msg' = "updated"
            ELSE /\ Finish(main_error)
                 /\ UNCHANGED <<intents, msg>>
    /\ UNCHANGED <<catalog, args, callNo, before, bundle, eval, other, session, workflow, existing_data, existing_state, changed, targets,
                   idx, prev>>

\* lines 434-445: PATCH required-network-state
AddIntentPatch ==
    /\ pc = "add_intent:patch"
    /\ \E rsp \in WriteResponses :
         LET ok == rsp = "ok" /\ intents[args.target].present
             ans == IF ok THEN "ok" ELSE "exc"
         IN
         /\ log' = Append(log, Req("PATCH", "intent", args.target,
                                   StateBody(args.desired_state), ans))
         /\ IF ok
            THEN /\ intents' = [intents EXCEPT ![args.target].state =
                                  StateBody(args.desired_state).required_network_state]
                 /\ result' = result
                 /\ pc' = "add_intent:perform"
                 /\ msg' = "updated"
            ELSE /\ Finish(main_error)
                 /\ UNCHANGED <<intents, msg>>
    /\ UNCHANGED <<catalog, args, callNo, before, bundle, eval, other, session, workflow, existing_data, existing_state, changed, targets,
                   idx, prev>>

\* lines 447-468: build the result, run the requested operation, return
\* the post-apply operation run for audit only
performs_audit_only(perform) == perform = "audit"

\* lines 454 and 460: perform == "audit" / perform == "synchronize"
performs(perform) == perform \in {"audit", "synchronize"}

AddIntentPerform ==
    /\ pc = "add_intent:perform"
    /\ IF ~performs(args.perform)
       THEN /\ Finish(exit_json({"target", "intent_type", "version"}, changed, msg))
            /\ log' = log
       ELSE \E rsp \in OperationResponses :
              LET op_result == _run_intent_operation(rsp)
                  key == IF args.perform = "audit" THEN "audit_result" ELSE "sync_result"
              IN  /\ log' = Append(log, Req("POST", args.perform, args.target,
                                            [input |-> "empty"], rsp))
                  /\ IF op_result.raised
                     THEN Finish(main_error)
                     ELSE IF op_result.error
                     THEN Finish(_fail_on_operation_error(args.perform))
                     ELSE Finish(exit_json({"target", "intent_type", "version", key},
                                           changed, msg))
    /\ UNCHANGED <<remote, args, callNo, before, bundle, eval, other, session, workflow, locals, prev>>

(***************************************************************************)
(* handle_delete_intent                                                    *)
(***************************************************************************)
\* lines 473-480: read the intent; absent is success with changed=False
\* the removal from the network whatever the caller asked for
delete_step_patch(remove_from_network) == "delete_intent:patch"

\* line 482: if remove_from_network: PATCH and synchronize before the DELETE
delete_step(remove_from_network) ==
    IF remove_from_network THEN "delete_intent:patch" ELSE "delete_intent:delete"

DeleteIntentGet ==
    /\ pc = "delete_intent:get"
    /\ \E rsp \in GetResponses(intents[args.target].present) :
         LET got == intent_get(rsp, intents[args.target]) IN
         /\ log' = Append(log, Req("GET", "intent", args.target, PyNone, rsp))
         /\ IF got.raised
            THEN /\ Finish(main_error)
                 /\ UNCHANGED existing_data
            ELSE /\ existing_data' = got.data
                 /\ IF got.data.t = "none"
                    THEN Finish(exit_json({"target", "intent_type"}, FALSE, "already absent"))
                    ELSE /\ pc' = delete_step(args.remove_from_network)
                         /\ result' = result
    /\ UNCHANGED <<remote, args, callNo, before, bundle, eval, other, session, workflow, existing_state, changed, msg, targets, idx, prev>>

\* lines 482-489: PATCH required-network-state to "delete"
DeleteIntentPatch ==
    /\ pc = "delete_intent:patch"
    /\ \E rsp \in WriteResponses :
         LET ok == rsp = "ok" /\ intents[args.target].present
             ans == IF ok THEN "ok" ELSE "exc"
         IN
         /\ log' = Append(log, Req("PATCH", "intent", args.target, StateBody("delete"), ans))
         /\ IF ok
            THEN /\ intents' = [intents EXCEPT ![args.target].state =
                                  StateBody("delete").required_network_state]
                 /\ pc' = "delete_intent:synchronize"
                 /\ result' = result
            ELSE /\ Finish(main_error)
                 /\ UNCHANGED intents
    /\ UNCHANGED <<catalog, args, callNo, before, bundle, eval, other, session, workflow, locals, prev>>

\* lines 490-496: synchronize, fail the call when it reports an error
DeleteIntentSynchronize ==
    /\ pc = "delete_intent:synchronize"
    /\ \E rsp \in OperationResponses :
         LET sync_result == _run_intent_operation(rsp) IN
         /\ log' = Append(log, Req("POST", "synchronize", args.target,
                                   [input |-> "empty"], rsp))
         /\ IF sync_result.raised
            THEN Finish(main_error)
            ELSE IF sync_result.error
            THEN Finish(_fail_on_operation_error("synchronize"))
            ELSE pc' = "delete_intent:delete" /\ result' = result
    /\ UNCHANGED <<remote, args, callNo, before, bundle, eval, other, session, workflow, locals, prev>>

\* lines 498-506: DELETE the intent
DeleteIntentDelete ==
    /\ pc = "delete_intent:delete"
    /\ \E rsp \in WriteResponses :
         LET ok == rsp = "ok" /\ intents[args.target].present
             ans == IF ok THEN "ok" ELSE "exc"
         IN
         /\ log' = Append(log, Req("DELETE", "intent", args.target, PyNone, ans))
         /\ IF ok
            THEN /\ intents' = [intents EXCEPT ![args.target] = Absent]
                 /\ Finish(exit_json({"target", "intent_type"}, TRUE, "deleted"))
            ELSE /\ Finish(main_error)
                 /\ UNCHANGED intents
    /\ UNCHANGED <<catalog, args, callNo, before, bundle, eval, other, session, workflow, locals, prev>>

(***************************************************************************)
(* handle_delete_intent_type                                               *)
(***************************************************************************)
\* lines 662-669: existence check of the catalog entry
DeleteIntentTypeExists ==
    /\ pc = "delete_intent_type:exists"
    /\ \E rsp \in GetResponses(args.version \in catalog) :
         LET ex == _resource_exists(rsp) IN
         /\ log' = Append(log, Req("GET", "catalog", "", PyNone, rsp))
         /\ IF ex.raised
            THEN Finish(main_error)
            ELSE IF ~ex.exists
                 THEN Finish(exit_json({"intent_type", "version"}, TRUE, "does not exist"))
                 ELSE pc' = "delete_intent_type:search" /\ result' = result
    /\ UNCHANGED <<remote, args, callNo, before, bundle, eval, other, session, workflow, locals, prev>>

\* refusing only when more than one intent is found
refuse_off_by_one(found, force) == Len(found) > 1 /\ ~force
\* a failed DELETE of an intent that is skipped instead of ending the call
delete_failed_ignored(ans) == FALSE

\* line 694: if targets and not force
refuse(found, force) == found # <<>> /\ ~force
\* lines 704-708: except Exception around the DELETE of one intent
delete_failed(ans) == ans # "ok"

\* lines 671-701: search the intents of (intent_type, version); an exception of
\* the search is swallowed (data = {}); refuse when any is found and not force
DeleteIntentTypeSearch ==
    /\ pc = "delete_intent_type:search"
    /\ \E rsp \in SearchResponses :
         LET found == IF rsp = "ok" THEN Page0(Matching(args.version)) ELSE <<>> IN
         /\ log' = Append(log, Req("POST", "SEARCH_INTENTS", "",
                                   [intent_type_version |-> args.version,
                                    page_number |-> 0, page_size |-> PageSize], rsp))
         /\ targets' = found
         /\ idx' = 1
         /\ IF refuse(found, args.force)
            THEN Finish(fail_json({"intent_type", "version"}, "has intents", Len(found)))
            ELSE /\ pc' = IF found # <<>> THEN "delete_intent_type:intents"
                          ELSE "delete_intent_type:catalog"
                 /\ result' = result
    /\ UNCHANGED <<remote, args, callNo, before, bundle, eval, other, session, workflow, existing_data, existing_state, changed, msg, prev>>

\* lines 703-713: one DELETE per target, the call fails at the first failure
DeleteIntentTypeIntent ==
    /\ pc = "delete_intent_type:intents"
    /\ \E rsp \in WriteResponses :
         LET tgt == targets[idx]
             ok == rsp = "ok" /\ intents[tgt].present
             ans == IF ok THEN "ok" ELSE "exc"
         IN  /\ log' = Append(log, Req("DELETE", "intent", tgt, PyNone, ans))
             /\ IF ~delete_failed(ans)
                THEN /\ intents' = IF ok THEN [intents EXCEPT ![tgt] = Absent] ELSE intents
                     /\ idx' = idx + 1
                     /\ pc' = IF idx < Len(targets) THEN "delete_intent_type:intents"
                              ELSE "delete_intent_type:catalog"
                     /\ result' = result
                ELSE /\ Finish(fail_json({"intent_type", "version"},
                                         "Failed to delete intent", 0))
                     /\ UNCHANGED <<intents, idx>>
    /\ UNCHANGED <<catalog, args, callNo, before, bundle, eval, other, session, workflow, existing_data, existing_state, changed, msg,
                   targets, prev>>

\* lines 715-729: DELETE the catalog entry
DeleteIntentTypeCatalog ==
    /\ pc = "delete_intent_type:catalog"
    /\ \E rsp \in WriteResponses :
         LET ok == rsp = "ok" /\ args.version \in catalog
             ans == IF ok THEN "ok" ELSE "exc"
         IN
         /\ log' = Append(log, Req("DELETE", "catalog", "", PyNone, ans))
         /\ IF ok
            THEN /\ catalog' = catalog \ {args.version}
                 /\ Finish(exit_json({"intent_type", "version"}, TRUE, "deleted"))
            ELSE /\ Finish(fail_json({"intent_type", "version"},
                                     "Failed to delete intent-type", 0))
                 /\ UNCHANGED catalog
    /\ UNCHANGED <<intents, args, callNo, before, bundle, eval, other, session, workflow, locals, prev>>

(***************************************************************************)
(* handle_upload                                                           *)
(***************************************************************************)
\* the message each local check fails with, "" when it passes
resolve_intent_root_dir(b) ==
    IF b.path = "missing" THEN "Path does not exist"
    ELSE IF b.path = "other_file" THEN "Path must be a directory or meta-info.json"
    ELSE ""

get_intent_type_and_version_from_meta(b) ==
    IF b.meta = "missing" THEN "meta-info.json not found"
    ELSE IF b.meta = "unparsable" THEN "Failed to parse meta-info.json"
    ELSE IF b.meta = "no_intent_type" THEN "meta-info.json must contain 'intent-type'"
    ELSE IF b.meta = "no_version" THEN "meta-info.json must contain 'version'"
    ELSE ""

\* the module list taking the dot files of yang-modules too
yang_modules_dotfiles(b) == IF b.yang \in {"modules", "hidden"} THEN 1 ELSE 0

\* modules: the files of yang-modules whose names do not start with "."
yang_modules(b) == IF b.yang = "modules" THEN 1 ELSE 0

\* building the catalog payload from the folder
build_payload(b) ==
    IF ~b.script_js /\ ~b.script_mjs
    THEN "Neither script-content.js nor script-content.mjs found"
    ELSE IF b.yang = "missing" THEN "yang-modules directory not found"
    ELSE IF yang_modules(b) = 0 THEN "No YANG files found in yang-modules"
    ELSE ""

local_error(b) ==
    IF resolve_intent_root_dir(b) # "" THEN resolve_intent_root_dir(b)
    ELSE IF get_intent_type_and_version_from_meta(b) # ""
         THEN get_intent_type_and_version_from_meta(b)
    ELSE build_payload(b)

\* the steps after the catalog write: views, then intents, then the result
views_step(b) == IF b.views > 0 THEN "upload:views"
                 ELSE IF b.intents # <<>> THEN "upload:intents" ELSE "done"
\* the view loop entered again after its last file
intents_step_views(b) == "upload:views"

intents_step(b) == IF b.intents # <<>> THEN "upload:intents" ELSE "done"
upload_msg(m, b) ==
    m \o (IF b.views > 0 THEN ", view(s) uploaded" ELSE "")
      \o (IF b.intents # <<>> THEN ", intent(s) uploaded" ELSE "")
Goto(step, m) ==
    IF step = "done"
    THEN Finish(exit_json({"intent_type", "version"}, TRUE, upload_msg(m, bundle)))
    ELSE pc' = step /\ result' = result

\* resolve the path, read meta-info.json, build the payload: no request
UploadLocal ==
    /\ pc = "upload:local"
    /\ IF local_error(bundle) # ""
       THEN Finish(fail_json({}, local_error(bundle), 0))
       ELSE pc' = "upload:exists" /\ result' = result
    /\ UNCHANGED <<remote, args, callNo, before, bundle, eval, other, session, workflow, locals, log, prev>>

\* the catalog write that is a create whatever the check said
catalog_step_create(exists) == "upload:create"

\* line 572: "if not _resource_exists(...)": POST, else PUT
catalog_step(exists) == IF exists THEN "upload:update" ELSE "upload:create"

\* _resource_exists(catalog_path(intent_type, version))
UploadExists ==
    /\ pc = "upload:exists"
    /\ \E rsp \in GetResponses(bundle.version \in catalog) :
         LET ex == _resource_exists(rsp) IN
         /\ log' = Append(log, Req("GET", "catalog", "", PyNone, rsp))
         /\ IF ex.raised
            THEN Finish(main_error)
            ELSE /\ pc' = catalog_step(ex.exists)
                 /\ result' = result
    /\ UNCHANGED <<remote, args, callNo, before, bundle, eval, other, session, workflow, locals, prev>>

\* POST to the catalog root, or PUT of the catalog entry
UploadCatalog ==
    /\ pc \in {"upload:create", "upload:update"}
    /\ \E rsp \in WriteResponses :
         LET create == pc = "upload:create"
             ans == IF create = (bundle.version \in catalog) THEN "exc" ELSE rsp
             m == IF create THEN "Intent-type created" ELSE "Intent-type updated"
         IN
         /\ log' = Append(log, Req(IF create THEN "POST" ELSE "PUT",
                                   IF create THEN "CATALOG_ROOT" ELSE "catalog",
                                   "", [version |-> bundle.version], ans))
         /\ IF ans = "ok"
            THEN /\ catalog' = catalog \cup {bundle.version}
                 /\ msg' = m
                 /\ idx' = 1
                 /\ Goto(views_step(bundle), m)
            ELSE /\ Finish(main_error)
                 /\ UNCHANGED <<catalog, msg, idx>>
    /\ UNCHANGED <<intents, args, callNo, before, bundle, eval, other, session, workflow, existing_data, existing_state,
                   changed, targets, prev>>

\* lines 597-598 and 620-621: open/read of the i-th view file, json.load of
\* the i-th intent file, inside the loops that send the requests
file_error(b, kind, i) ==
    \/ kind = "view" /\ b.broken = "view" /\ i = b.views
    \/ kind = "intent" /\ b.broken = "intent" /\ i = Len(b.intents)

\* one PATCH per .viewConfig file, each read right before its request
UploadView ==
    /\ pc = "upload:views"
    /\ IF file_error(bundle, "view", idx)
       THEN Finish(main_error) /\ UNCHANGED <<log, idx>>
       ELSE \E rsp \in WriteResponses :
         /\ log' = Append(log, Req("PATCH", "VIEW_CONFIG", "", [view |-> idx], rsp))
         /\ IF rsp = "ok"
            THEN IF idx < bundle.views
                 THEN idx' = idx + 1 /\ pc' = pc /\ result' = result
                 ELSE idx' = 1 /\ Goto(intents_step(bundle), msg)
            ELSE Finish(main_error) /\ idx' = idx
    /\ UNCHANGED <<remote, args, callNo, before, bundle, eval, other, session, workflow, existing_data, existing_state,
                   changed, msg, targets, prev>>

\* the fallback PUT failing without ending the call
put_failed_ignored(rsp) == FALSE

put_failed(rsp) == rsp # "ok"

\* the next file of intents/, or the result after the last one
NextIntent ==
    IF idx < Len(bundle.intents)
    THEN idx' = idx + 1 /\ pc' = "upload:intents" /\ result' = result
    ELSE idx' = idx /\ Goto("done", msg)

\* the PUT following the POST whatever its outcome
create_failed_always(ans) == TRUE

\* lines 631-639: the POST raised
create_failed(ans) == ans # "ok"

\* POST of a bundled intent; "except Exception" leads to the PUT
UploadIntent ==
    /\ pc = "upload:intents"
    /\ IF file_error(bundle, "intent", idx)
       THEN Finish(main_error) /\ UNCHANGED <<log, intents, idx>>
       ELSE \E rsp \in WriteResponses :
         LET tgt == bundle.intents[idx]
             ans == IF intents[tgt].present THEN "exc" ELSE rsp
         IN
         /\ log' = Append(log, Req("POST", "IBN_DATA", tgt,
                                   [target |-> tgt, intent_type_version |-> bundle.version,
                                    intent_specific_data |-> CfgDisable,
                                    required_network_state |-> "active"], ans))
         /\ intents' = IF ans = "ok"
                       THEN [intents EXCEPT ![tgt] = Intent(bundle.version, CfgDisable, "active")]
                       ELSE intents
         /\ IF create_failed(ans)
            THEN /\ pc' = "upload:intent_put"
                 /\ UNCHANGED <<idx, result>>
            ELSE NextIntent
    /\ UNCHANGED <<catalog, args, callNo, before, bundle, eval, other, session, workflow, existing_data, existing_state,
                   changed, msg, targets, prev>>

\* PUT of the intent-specific-data of a bundled intent whose POST failed
UploadIntentPut ==
    /\ pc = "upload:intent_put"
    /\ \E rsp \in WriteResponses :
         LET tgt == bundle.intents[idx]
             ans == IF intents[tgt].present THEN rsp ELSE "exc"
         IN
         /\ log' = Append(log, Req("PUT", "intent-specific-data", tgt,
                                   [intent_specific_data |-> CfgDisable], ans))
         /\ intents' = IF ans = "ok" THEN [intents EXCEPT ![tgt].data = CfgDisable]
                                     ELSE intents
         /\ IF put_failed(ans)
            THEN Finish(main_error) /\ idx' = idx
            ELSE NextIntent
    /\ UNCHANGED <<catalog, args, callNo, before, bundle, eval, other, session, workflow, existing_data, existing_state,
                   changed, msg, targets, prev>>

(***************************************************************************)
(* RESTCONF error envelopes                                                *)
(***************************************************************************)
\* A string is the sequence of the pieces it is made of; "sub in s.lower()"
\* looks for a piece.
Lower(piece) == IF piece = "Not Found" THEN "not found" ELSE piece
Contains(str, sub) == \E i \in 1..Len(str) : Lower(str[i]) = sub

\* "error-message" values (<<>>: missing or empty) and "error-tag" values
Messages == {<<>>, <<"missing">>, <<"missing", "Not Found">>, <<"404">>}
Tags == {"", "invalid-value", "data-missing"}
\* an entry of the error list: a mapping, or something that is no mapping
Items == [t : {"dict"}, message : Messages, tag : Tags] \cup {[t |-> "str"]}
ItemLists == UNION {[1..k -> Items] : k \in 0..MaxEntries}
\* the value under "error": a list, null, or the key is missing
ErrorValues == {[t |-> "list", v |-> l] : l \in ItemLists} \cup {PyNone, [t |-> "absent"]}
\* the value under "ietf-restconf:errors" / "errors"
ErrorsValues ==
    {[t |-> "dict", error |-> e] : e \in ErrorValues}
    \cup {[t |-> "list", v |-> l] : l \in ItemLists}
    \cup {PyNone, [t |-> "str"]}
\* a parsed body: an envelope, a resource, null, or a JSON value that is no mapping
Payloads ==
    {[t |-> "dict", key |-> k, errors |-> e] :
        k \in {"ietf-restconf:errors", "errors"}, e \in ErrorsValues}
    \cup {[t |-> "dict", key |-> "ibn:intent"], PyNone, [t |-> "list"]}
\* raw text: the JSON text of a payload, the same inside a byte-string literal
\* b'...', the Python repr of a payload, a byte-string literal with a broken
\* escape, or plain words
Texts ==
    {[t |-> "str", form |-> f, of |-> p] : f \in {"json", "bytes", "repr"}, p \in Payloads}
    \cup {[t |-> "str", form |-> "plain", v |-> m] : m \in Messages}
    \cup {[t |-> "str", form |-> "bytes_bad"]}

RECURSIVE ItemsPieces(_)
ItemsPieces(l) ==
    IF l = <<>> THEN <<>>
    ELSE (IF Head(l).t = "dict"
          THEN <<"error-message">> \o Head(l).message \o <<"error-tag", Head(l).tag>>
          ELSE <<"text">>) \o ItemsPieces(Tail(l))
\* to_native(e) of the exception raised for an error response with this body
to_native(p) ==
    IF p.t # "dict" THEN <<>>
    ELSE IF p.key = "ibn:intent" THEN <<"ibn:intent">>
    ELSE <<p.key>> \o
         (IF p.errors.t = "dict"
          THEN <<"error">> \o (IF p.errors.error.t = "list"
                               THEN ItemsPieces(p.errors.error.v) ELSE <<>>)
          ELSE IF p.errors.t = "list" THEN ItemsPieces(p.errors.v) ELSE <<>>)

Return(v) == [st |-> "return", ret |-> v]
Raise == [st |-> "raise"]

\* errors = data.get(...) or {}; error_list = errors.get("error", []) or errors
error_list(data) ==
    LET none == [t |-> "list", v |-> <<>>]
    IN  IF data.key \notin {"ietf-restconf:errors", "errors"} THEN none
        ELSE IF data.errors.t = "dict"
             THEN (IF data.errors.error.t = "absent" THEN none ELSE data.errors.error)
        ELSE IF data.errors.t = "list" THEN data.errors
        ELSE none

is_restconf_not_found_response(data) ==
    IF data.t # "dict" THEN Return(FALSE)
    ELSE LET l == error_list(data)
         IN  IF l.t # "list" THEN Raise    \* for item in None
             ELSE Return(\E i \in 1..Len(l.v) :
                            /\ l.v[i].t = "dict"
                            /\ \/ Contains(l.v[i].message, "not found")
                               \/ l.v[i].tag = "invalid-value"
                               \/ Contains(l.v[i].message, "404"))

parse_restconf_error(data) ==
    IF data.t = "str" /\ data.form = "bytes_bad" THEN Raise    \* unicode_escape
    ELSE IF data.t = "str" /\ data.form \in {"repr", "plain"} THEN Return(data)
    ELSE LET loaded == IF data.t = "str" THEN data.of ELSE data
         IN  IF loaded.t # "dict" THEN Return(PyNone)
             ELSE LET l == error_list(loaded)
                  IN  IF l.t # "list" THEN Raise    \* for item in None
                      ELSE LET hits == {i \in 1..Len(l.v) :
                                          l.v[i].t = "dict" /\ l.v[i].message # <<>>}
                           IN  IF hits = {} THEN Return(PyNone)
                               ELSE LET first == CHOOSE i \in hits : \A j \in hits : i <= j
                                    IN  Return([t |-> "str", form |-> "plain",
                                                v |-> l.v[first].message])

\* except Exception as e: "404" / "not found" in to_native(e).lower(), else raise
exception_not_found(body) ==
    IF Contains(to_native(body), "404") \/ Contains(to_native(body), "not found")
    THEN Return("not_found") ELSE Raise

\* what intent_get makes of an answer that arrives as the parsed body of a
\* response or as the body of an error response raised by the transport
intent_get_answer(arrival, body) ==
    IF arrival = "exception" THEN exception_not_found(body)
    ELSE IF body.t # "dict" THEN Return("not_found")
    ELSE LET nf == is_restconf_not_found_response(body)
         IN  IF nf.st = "raise" THEN Raise
             ELSE IF nf.ret THEN Return("not_found") ELSE Return("found")

_resource_exists_answer(arrival, body) ==
    IF arrival = "exception" THEN exception_not_found(body)
    ELSE IF body.t # "dict" THEN Return("not_found")
    ELSE LET nf == is_restconf_not_found_response(body)
         IN  IF nf.st = "raise" THEN Raise    \* TypeError: neither "404" nor "not found"
             ELSE IF nf.ret THEN Return("not_found") ELSE Return("found")

(***************************************************************************)
(* Specifications                                                          *)
(***************************************************************************)
InitCall ==
    /\ pc = "idle"
    /\ args = NoArgs
    /\ callNo = 0
    /\ existing_data = PyNone
    /\ existing_state = "None"
    /\ changed = FALSE
    /\ msg = ""
    /\ targets = <<>>
    /\ idx = 1
    /\ log = <<>>
    /\ before = intents
    /\ result = NoResult
    /\ prev = NoPrev
    /\ bundle = NoBundle
    /\ eval = NoEval
    /\ other = NoFrame
    /\ workflow = NoWorkflow
    /\ token = "None" /\ _auth = <<>>

\* add_intent / delete_intent against any remote state of the intent
Init ==
    /\ intents \in [Targets -> RemoteIntents]
    /\ intents[TargetOrder[2]] = Intent(1, CfgEnable, "active")
    /\ \A i \in 3..Len(TargetOrder) : intents[TargetOrder[i]] = Absent
    /\ catalog = Versions
    /\ InitCall

Next ==
    \/ StartIntentCall
    \/ Repeat
    \/ AddIntentGet
    \/ AddIntentCreate
    \/ AddIntentPut
    \/ AddIntentPatch
    \/ AddIntentPerform
    \/ DeleteIntentGet
    \/ DeleteIntentPatch
    \/ DeleteIntentSynchronize
    \/ DeleteIntentDelete

Spec == Init /\ [][Next]_vars

\* delete_intent_type against any catalog and any set of intents
InitType ==
    /\ intents \in [Targets -> {Absent} \cup {Intent(ver, CfgEnable, "active") : ver \in Versions}]
    /\ catalog \in SUBSET Versions
    /\ InitCall

NextType ==
    \/ StartTypeCall
    \/ Repeat
    \/ DeleteIntentTypeExists
    \/ DeleteIntentTypeSearch
    \/ DeleteIntentTypeIntent
    \/ DeleteIntentTypeCatalog

SpecType == InitType /\ [][NextType]_vars

\* _config_equal applied to any two documents
ConfigEqual ==
    /\ eval.fn = "_config_equal" /\ eval.st = "call"
    /\ eval' = IF sorted_raises(eval.a) \/ sorted_raises(eval.b)
               THEN [eval EXCEPT !.st = "raise"]
               ELSE [eval EXCEPT !.st = "return", !.ret = _config_equal(eval.a, eval.b)]
    /\ UNCHANGED <<remote, pc, args, callNo, locals, log, before, result, prev, bundle, other, session, workflow>>

InitEq ==
    /\ intents = [t \in Targets |-> Absent]
    /\ catalog = {}
    /\ pc = "idle" /\ args = NoArgs /\ callNo = 0
    /\ existing_data = PyNone /\ existing_state = "None" /\ changed = FALSE /\ msg = ""
    /\ targets = <<>> /\ idx = 1 /\ log = <<>> /\ before = intents
    /\ result = NoResult /\ prev = NoPrev /\ bundle = NoBundle
    /\ other = NoFrame /\ workflow = NoWorkflow
    /\ token = "None" /\ _auth = <<>>
    /\ eval \in [fn : {"_config_equal"}, a : Docs, b : Docs, st : {"call"}, ret : {FALSE}]

NextEq == ConfigEqual

SpecEq == InitEq /\ [][NextEq]_vars

\* parse_restconf_error applied to a payload or a text
ParseRestconfError ==
    /\ eval.fn = "parse_restconf_error" /\ eval.st = "call"
    /\ eval' = [fn |-> eval.fn, data |-> eval.data] @@ parse_restconf_error(eval.data)
    /\ UNCHANGED <<remote, pc, args, callNo, locals, log, before, result, prev, bundle, other, session, workflow>>

\* intent_get / _resource_exists reading the answer to their GET
ClassifyAnswer ==
    /\ eval.fn \in {"intent_get", "_resource_exists"} /\ eval.st = "call"
    /\ eval' = [fn |-> eval.fn, arrival |-> eval.arrival, data |-> eval.data] @@
               (IF eval.fn = "intent_get"
                THEN intent_get_answer(eval.arrival, eval.data)
                ELSE _resource_exists_answer(eval.arrival, eval.data))
    /\ UNCHANGED <<remote, pc, args, callNo, locals, log, before, result, prev, bundle, other, session, workflow>>

\* _run_intent_operation, lines 391-396, then _fail_on_operation_error, lines
\* 354-365: "error" is to_native(out), the repr of the mapping, for an envelope
\* in a 2xx body, and the text b'...' of the exception for an error response;
\* err_msg = parse_restconf_error(error) or parse_restconf_error(restconf_errors);
\* the message ends with err_msg, or with the raw "error" when err_msg is empty
operation_error_message(arrival, p) ==
    LET err_raw == [t |-> "str", form |-> IF arrival = "body" THEN "repr" ELSE "bytes",
                    of |-> p]
        first == parse_restconf_error(err_raw)
        second == parse_restconf_error(p)
    IN  IF first.st = "raise" THEN Raise
        ELSE IF first.ret # PyNone THEN Return(first.ret)
        ELSE IF second.st = "raise" THEN Raise
        ELSE IF second.ret # PyNone THEN Return(second.ret)
        ELSE Return(err_raw)

\* _fail_on_operation_error on the result of a failed audit / synchronize
FailOnOperationError ==
    /\ eval.fn = "_fail_on_operation_error" /\ eval.st = "call"
    /\ eval' = [fn |-> eval.fn, arrival |-> eval.arrival, data |-> eval.data] @@
               operation_error_message(eval.arrival, eval.data)
    /\ UNCHANGED <<remote, pc, args, callNo, locals, log, before, result, prev, bundle, other, session, workflow>>

InitErr ==
    /\ intents = [t \in Targets |-> Absent]
    /\ catalog = {}
    /\ pc = "idle" /\ args = NoArgs /\ callNo = 0
    /\ existing_data = PyNone /\ existing_state = "None" /\ changed = FALSE /\ msg = ""
    /\ targets = <<>> /\ idx = 1 /\ log = <<>> /\ before = intents
    /\ result = NoResult /\ prev = NoPrev /\ bundle = NoBundle
    /\ other = NoFrame /\ workflow = NoWorkflow
    /\ token = "None" /\ _auth = <<>>
    /\ eval \in [fn : {"parse_restconf_error"}, data : Payloads \cup Texts, st : {"call"}]
               \cup [fn : {"intent_get", "_resource_exists"},
                     arrival : {"body", "exception"}, data : Payloads, st : {"call"}]
               \cup [fn : {"_fail_on_operation_error"}, arrival : {"body", "exception"},
                     data : {p \in Payloads : p.t = "dict" /\ p.key # "ibn:intent"},
                     st : {"call"}]

NextErr ==
    \/ ParseRestconfError
    \/ ClassifyAnswer
    \/ FailOnOperationError

SpecErr == InitErr /\ [][NextErr]_vars

\* upload_intent_type of any folder against any catalog
StartUpload ==
    /\ pc = "idle"
    /\ \E a \in UploadArgs : Begin(a)
    /\ prev' = NoPrev

InitUpload ==
    /\ intents \in [Targets -> {Absent, Intent(1, CfgEnable, "active")}]
    /\ \A i \in 2..Len(TargetOrder) : intents[TargetOrder[i]] = Absent
    /\ catalog \in SUBSET Versions
    /\ pc = "idle" /\ args = NoArgs /\ callNo = 0
    /\ existing_data = PyNone /\ existing_state = "None" /\ changed = FALSE /\ msg = ""
    /\ targets = <<>> /\ idx = 1 /\ log = <<>> /\ before = intents
    /\ result = NoResult /\ prev = NoPrev /\ eval = NoEval
    /\ bundle \in Bundles
    /\ other = NoFrame /\ workflow = NoWorkflow
    /\ token = "None" /\ _auth = <<>>

NextUpload ==
    \/ StartUpload
    \/ Repeat
    \/ UploadLocal
    \/ UploadExists
    \/ UploadCatalog
    \/ UploadView
    \/ UploadIntent
    \/ UploadIntentPut

SpecUpload == InitUpload /\ [][NextUpload]_vars

\* main of a first invocation of any of the four operations: an upload where
\* the play has a folder to upload, an operation on intents where it has none
StartCall ==
    /\ pc = "idle"
    /\ \E a \in IF bundle.present THEN UploadArgs
                 ELSE AddIntentArgs \cup DeleteIntentArgs \cup DeleteIntentTypeArgs : Begin(a)
    /\ prev' = NoPrev

InitAll == Init \/ InitUpload

NextAll ==
    \/ StartCall
    \/ Repeat
    \/ AddIntentGet
    \/ AddIntentCreate
    \/ AddIntentPut
    \/ AddIntentPatch
    \/ AddIntentPerform
    \/ DeleteIntentGet
    \/ DeleteIntentPatch
    \/ DeleteIntentSynchronize
    \/ DeleteIntentDelete
    \/ DeleteIntentTypeExists
    \/ DeleteIntentTypeSearch
    \/ DeleteIntentTypeIntent
    \/ DeleteIntentTypeCatalog
    \/ UploadLocal
    \/ UploadExists
    \/ UploadCatalog
    \/ UploadView
    \/ UploadIntent
    \/ UploadIntentPut

SpecAll == InitAll /\ [][NextAll]_vars

(***************************************************************************)
(* The wfm module: define, upload, execute and delete of a workflow        *)
(***************************************************************************)
\* the workflow definitions a play or the remote side holds
Definitions == {"flow: v1", "flow: v2"}
\* the remote workflow named "flow": absent, or with a definition and a status
Workflows ==
    {NoWorkflow} \cup [present : {TRUE}, definition : Definitions,
                       status : {"DRAFT", "PUBLISHED"}]
\* what yaml.safe_load gives for the definition text
YamlKinds == {"unparsable", "not_dict", "no_name", "ok"}
\* what the upload path names: nothing, one YAML file, a folder with no, one
\* or two YAML files, something else
PathKinds == {"missing", "file", "dir_none", "dir_one", "dir_two", "other"}
\* the identifier of execute and delete: 36 characters with a "-", or a name
Identifiers == {"uuid", "name"}

DefineArgs ==
    [operation : {"define"}, check_mode : BOOLEAN, definition : Definitions, yaml : YamlKinds]
WfmUploadArgs ==
    [operation : {"upload"}, check_mode : BOOLEAN, definition : Definitions, yaml : {"ok"},
     path : PathKinds, readable : BOOLEAN]
ExecuteArgs == [operation : {"execute"}, check_mode : BOOLEAN, identifier : Identifiers]
WfmDeleteArgs == [operation : {"delete"}, check_mode : BOOLEAN, identifier : Identifiers]

\* an exception no handler catches: main of wfm has no try around the
\* handlers, the module ends with a traceback and the task fails
module_failure(exc) == fail_json({"exception"}, "MODULE FAILURE: " \o exc, 0)

\* HttpApi.send_request returns the pair (status, body)
send_request_result(body) == [t |-> "tuple", status |-> 200, body |-> body]
\* data.get(...): an attribute of mappings only
has_get(data) == data.t = "dict"

\* check mode never seen by the handlers
check_mode_off(a) == FALSE

\* module.check_mode
check_mode(a) == a.check_mode

\* lines 371-403 of handle_upload and 233-245 of handle_define: the message
\* each local check fails with, "" when all pass
wfm_local_error(a) ==
    IF a.operation = "upload" /\ a.path = "missing" THEN "Path does not exist"
    ELSE IF a.operation = "upload" /\ a.path = "dir_none" THEN "No YAML files found in directory"
    ELSE IF a.operation = "upload" /\ a.path = "dir_two"
         THEN "Directory must contain exactly one workflow YAML file"
    ELSE IF a.operation = "upload" /\ a.path = "other" THEN "Path is neither file nor directory"
    ELSE IF a.operation = "upload" /\ ~a.readable THEN "Failed to read workflow file"
    ELSE IF a.yaml = "unparsable" THEN "Failed to parse workflow definition"
    ELSE IF a.yaml = "not_dict" THEN "Invalid workflow definition: must be YAML dictionary"
    ELSE IF a.yaml = "no_name" THEN "No workflow name found in definition"
    ELSE ""

\* the path and the YAML text are checked before any request
WfmLocal ==
    /\ pc = "wfm:local"
    /\ IF wfm_local_error(args) # ""
       THEN Finish(fail_json({}, wfm_local_error(args), 0))
       ELSE /\ pc' = IF check_mode(args) THEN "wfm:validate" ELSE "wfm:lookup"
            /\ result' = result
    /\ UNCHANGED <<remote, args, callNo, before, bundle, eval, other, session, workflow, locals, log, prev>>

\* lines 248-275: check mode of define and upload, POST .../workflow/validate;
\* the answer is read with data.get outside the try
WfmValidate ==
    /\ pc = "wfm:validate"
    /\ \E rsp \in WriteResponses : \E valid \in BOOLEAN :
         LET data == send_request_result([valid |-> valid]) IN
         /\ log' = Append(log, Req("POST", "workflow/validate", "", args.definition, rsp))
         /\ IF rsp # "ok"
            THEN Finish(fail_json({"workflow_name"}, "Workflow validation error", 0))
            ELSE IF ~has_get(data)
            THEN Finish(module_failure("AttributeError"))
            ELSE IF ~data.body.valid
            THEN Finish(fail_json({"workflow_name"}, "Workflow validation failed", 0))
            ELSE Finish(exit_json({"workflow_name", "workflow_id", "status"}, TRUE,
                                  "Workflow validation successfully passed (check-mode)"))
    /\ UNCHANGED <<remote, args, callNo, before, bundle, eval, other, session, workflow, locals, prev>>

\* lines 467-477 and 530-542: an identifier that looks like a UUID is the id,
\* anything else is a name to look up
WfmResolve ==
    /\ pc = "wfm:resolve"
    /\ pc' = IF args.identifier = "uuid" THEN "wfm:act" ELSE "wfm:lookup"
    /\ UNCHANGED <<remote, args, callNo, before, bundle, eval, other, session, workflow, locals, log,
                   result, prev>>

\* get_workflow_by_name: GET /wfm/api/v1/workflow, then data.get("response");
\* an exception of the request or of the .get is caught by nobody. With a
\* mapping the handler would go on with the workflow found ("wfm:found").
WfmLookup ==
    /\ pc = "wfm:lookup"
    /\ \E rsp \in WriteResponses :
         LET data == send_request_result(workflow) IN
         /\ log' = Append(log, Req("GET", "workflow", "", PyNone, rsp))
         /\ IF rsp # "ok"
            THEN Finish(module_failure("ConnectionError"))
            ELSE IF ~has_get(data)
            THEN Finish(module_failure("AttributeError"))
            ELSE pc' = "wfm:found" /\ result' = result
    /\ UNCHANGED <<remote, args, callNo, before, bundle, eval, other, session, workflow, locals, prev>>

\* lines 480-515: execute of the workflow with this id; in check mode no
\* request. The answer is read with data.get outside the try.
WfmExecute ==
    /\ pc = "wfm:act" /\ args.operation = "execute"
    /\ IF check_mode(args)
       THEN /\ Finish(exit_json({}, FALSE, "Would execute workflow"))
            /\ log' = log
       ELSE \E rsp \in WriteResponses :
              LET data == send_request_result([state |-> "success"]) IN
              /\ log' = Append(log, Req("POST", "execution/synchronous", "", PyNone, rsp))
              /\ IF rsp # "ok"
                 THEN Finish(fail_json({"workflow_id"}, "Failed to execute workflow", 0))
                 ELSE IF ~has_get(data)
                 THEN Finish(module_failure("AttributeError"))
                 ELSE Finish(exit_json({"execution_id", "state", "output", "state_info"},
                                       TRUE, "Workflow executed"))
    /\ UNCHANGED <<remote, args, callNo, before, bundle, eval, other, session, workflow, locals, prev>>

\* what the remote answers to the DELETE of a workflow
DeleteResponses(present) == IF present THEN {"ok", "exc"} ELSE {"exc_404", "exc"}

\* lines 545-574: delete of the workflow with this id; in check mode no
\* request; an error whose text holds "404" or "Workflow not found" is success
WfmDelete ==
    /\ pc = "wfm:act" /\ args.operation = "delete"
    /\ IF check_mode(args)
       THEN /\ Finish(exit_json({}, TRUE, "Would delete workflow"))
            /\ UNCHANGED <<log, workflow>>
       ELSE \E rsp \in DeleteResponses(workflow.present) :
              /\ log' = Append(log, Req("DELETE", "workflow/id", "", PyNone, rsp))
              /\ workflow' = IF rsp = "ok" THEN NoWorkflow ELSE workflow
              /\ IF rsp = "ok"
                 THEN Finish(exit_json({}, TRUE, "Workflow deleted"))
                 ELSE IF rsp = "exc_404"
                 THEN Finish(exit_json({}, FALSE, "Workflow already deleted"))
                 ELSE Finish(fail_json({"workflow_id"}, "Failed to delete workflow", 0))
    /\ UNCHANGED <<intents, catalog, args, callNo, before, bundle, eval, other, session, locals, prev>>

\* main of wfm: exactly one of upload, define, execute, delete
StartWfmCall ==
    /\ pc = "idle"
    /\ \E a \in DefineArgs \cup WfmUploadArgs \cup ExecuteArgs \cup WfmDeleteArgs : Begin(a)
    /\ prev' = NoPrev

InitWfm ==
    /\ intents = [t \in Targets |-> Absent]
    /\ catalog = {}
    /\ pc = "idle" /\ args = NoArgs /\ callNo = 0
    /\ existing_data = PyNone /\ existing_state = "None" /\ changed = FALSE /\ msg = ""
    /\ targets = <<>> /\ idx = 1 /\ log = <<>> /\ before = intents
    /\ result = NoResult /\ prev = NoPrev /\ bundle = NoBundle /\ eval = NoEval
    /\ other = NoFrame
    /\ workflow \in Workflows
    /\ token = "None" /\ _auth = <<>>

NextWfm ==
    \/ StartWfmCall
    \/ Repeat
    \/ WfmLocal
    \/ WfmValidate
    \/ WfmResolve
    \/ WfmLookup
    \/ WfmExecute
    \/ WfmDelete

SpecWfm == InitWfm /\ [][NextWfm]_vars

(***************************************************************************)
(* The rest module: one REST call                                          *)
(***************************************************************************)
\* the HTTP status the server answers with
Statuses == {200, 204, 404, 500}
Methods == {"GET", "POST", "PUT", "DELETE", "PATCH"}
\* the body parameter: none, one json.dumps can serialize, one it cannot
Bodies == {"none", "json", "unserializable"}
RestArgs == [operation : {"rest"}, method : Methods, body : Bodies, dest : BOOLEAN]

\* HttpApi.send_request, lines 255-265: the connection hands a response of a
\* status outside 2xx back as the HTTPError raised for it, and send_request
\* raises ConnectionError(body, code) for an HTTPError
raises_ConnectionError(status) == status \notin 200..299

\* rest.py line 310
success(method, http_status) ==
    (200 <= http_status /\ http_status <= 299) \/ (method = "DELETE" /\ http_status = 404)

\* lines 266-272: serialize_body raising ValueError is fail_json
RestLocal ==
    /\ pc = "rest:local"
    /\ IF args.body = "unserializable"
       THEN Finish(fail_json({}, "Failed to serialize body to JSON", 0))
       ELSE pc' = "rest:send" /\ result' = result
    /\ UNCHANGED <<remote, args, callNo, before, bundle, eval, other, session, workflow, locals, log, prev>>

\* lines 288-382: the request, the status rule, the dest file, the result; an
\* exception of the request is fail_json("REST API call failed: ...")
RestSend ==
    /\ pc = "rest:send"
    /\ \E http_status \in Statuses : \E written \in BOOLEAN :
         /\ log' = Append(log, Req(args.method, "rest", "", [status |-> http_status],
                                   IF http_status \in 200..299 THEN "ok" ELSE "exc"))
         /\ IF raises_ConnectionError(http_status)
            THEN Finish(fail_json({"elapsed"}, "REST API call failed", 0))
            ELSE IF args.dest /\ success(args.method, http_status) /\ ~written
            THEN Finish(fail_json({}, "Failed to write file", 0))
            ELSE IF ~success(args.method, http_status)
            THEN Finish(fail_json({"status", "elapsed", "changed", "headers", "content"},
                                  "HTTP status is not 2xx", 0))
            ELSE Finish(exit_json({"status", "elapsed", "headers", "content"},
                                  args.method # "GET" \/ args.dest, ""))
    /\ UNCHANGED <<remote, args, callNo, before, bundle, eval, other, session, workflow, locals, prev>>

StartRestCall ==
    /\ pc = "idle"
    /\ \E a \in RestArgs : Begin(a)
    /\ prev' = NoPrev

InitRest ==
    /\ intents = [t \in Targets |-> Absent]
    /\ catalog = {}
    /\ pc = "idle" /\ args = NoArgs /\ callNo = 0
    /\ existing_data = PyNone /\ existing_state = "None" /\ changed = FALSE /\ msg = ""
    /\ targets = <<>> /\ idx = 1 /\ log = <<>> /\ before = intents
    /\ result = NoResult /\ prev = NoPrev /\ bundle = NoBundle /\ eval = NoEval
    /\ other = NoFrame /\ workflow = NoWorkflow
    /\ token = "None" /\ _auth = <<>>

NextRest ==
    \/ StartRestCall
    \/ Repeat
    \/ RestLocal
    \/ RestSend

SpecRest == InitRest /\ [][NextRest]_vars

\* Two invocations of add_intent at the same time against one (target,
\* intent_type). Each is a process of its own with its own locals; the one
\* that is not taking a step is kept in "other", and a request of either is
\* one step.
RaceArgs ==
    [operation : {"add_intent"}, target : {TargetOrder[1]}, version : {1}, config : Configs,
     desired_state : {"active", "suspend"}, perform : {"none"}]

IdleFrame ==
    [pc |-> "idle", args |-> NoArgs, existing_data |-> PyNone, existing_state |-> "None",
     changed |-> FALSE, msg |-> "", targets |-> <<>>, idx |-> 1, log |-> <<>>,
     before |-> [t \in Targets |-> Absent], result |-> NoResult]

StartRaceCall ==
    /\ pc = "idle"
    /\ \E a \in RaceArgs : Begin(a)
    /\ prev' = NoPrev

\* the scheduler lets the other invocation take the next steps
Switch ==
    /\ pc # "idle"
    /\ other.pc \notin {"none", "done"}
    /\ pc' = other.pc /\ args' = other.args
    /\ existing_data' = other.existing_data /\ existing_state' = other.existing_state
    /\ changed' = other.changed /\ msg' = other.msg
    /\ targets' = other.targets /\ idx' = other.idx
    /\ log' = other.log /\ before' = other.before /\ result' = other.result
    /\ other' = [pc |-> pc, args |-> args, existing_data |-> existing_data,
                 existing_state |-> existing_state, changed |-> changed, msg |-> msg,
                 targets |-> targets, idx |-> idx, log |-> log, before |-> before,
                 result |-> result]
    /\ UNCHANGED <<remote, callNo, prev, bundle, eval, workflow, session>>

InitRace ==
    /\ intents \in [Targets -> {Absent} \cup {Intent(1, d, "active") : d \in Configs}]
    /\ \A i \in 2..Len(TargetOrder) : intents[TargetOrder[i]] = Absent
    /\ catalog = Versions
    /\ pc = "idle" /\ args = NoArgs /\ callNo = 0
    /\ existing_data = PyNone /\ existing_state = "None" /\ changed = FALSE /\ msg = ""
    /\ targets = <<>> /\ idx = 1 /\ log = <<>> /\ before = intents
    /\ result = NoResult /\ prev = NoPrev /\ bundle = NoBundle /\ eval = NoEval
    /\ other = IdleFrame /\ workflow = NoWorkflow
    /\ token = "None" /\ _auth = <<>>

NextRace ==
    \/ StartRaceCall
    \/ Switch
    \/ AddIntentGet
    \/ AddIntentCreate
    \/ AddIntentPut
    \/ AddIntentPatch
    \/ AddIntentPerform

SpecRace == InitRace /\ [][NextRace]_vars

(***************************************************************************)
(* The token session of the httpapi plugin (plugins/httpapi/nsp.py)        *)
(***************************************************************************)
MaxSessionCalls == 3

\* what the token request of login is answered with: an exception of the
\* transport, a body that is no dict, a dict without access_token, a dict
\* with an empty access_token, a dict with a token
TokenAnswers == {"exc", "not_dict", "no_token", "empty_token", "T1", "T2"}
\* what the revocation request of logout is answered with
RevocationAnswers == {"ok", "exc"}

\* line 126: body.get("access_token")
access_token(answer) ==
    CASE answer = "no_token" -> "None"
      [] answer = "empty_token" -> ""
      [] OTHER -> answer
\* "if not self.token" (lines 127, 143)
not_token(t) == t \in {"None", ""}
\* lines 132-136: {"Authorization": "Bearer <token>"}
Bearer(t) == <<"Bearer", t>>

\* how a call of the plugin ended: it returned, or it raised
returned == NoResult
raised(exc) == [NoResult EXCEPT !.failed = TRUE, !.msg = exc]

\* lines 103-140: one POST to TOKEN_PATH; the token is assigned from the
\* answering dict before it is tested, the header only after the test
login ==
    /\ pc \in {"idle", "done"} /\ callNo < MaxSessionCalls
    /\ args' = [operation |-> "login"] /\ callNo' = callNo + 1 /\ pc' = "done"
    /\ \E answer \in TokenAnswers :
         /\ log' = Append(log, Req("POST", "TOKEN_PATH", "", "client_credentials",
                                   IF answer = "exc" THEN "exc" ELSE "ok"))
         /\ IF answer \in {"exc", "not_dict"}
            THEN result' = raised("ConnectionError") /\ UNCHANGED <<token, _auth>>
            ELSE /\ token' = access_token(answer)
                 /\ IF not_token(token')
                    THEN result' = raised("ConnectionError") /\ _auth' = _auth
                    ELSE result' = returned /\ _auth' = Bearer(token')
    /\ UNCHANGED <<remote, before, bundle, eval, other, workflow, locals, prev>>

\* lines 142-177: nothing without a token; else one POST to REVOKE_PATH,
\* token and header cleared after it, a failure only queued as a warning
logout ==
    /\ pc \in {"idle", "done"} /\ callNo < MaxSessionCalls
    /\ args' = [operation |-> "logout"] /\ callNo' = callNo + 1 /\ pc' = "done"
    /\ result' = returned
    /\ IF not_token(token)
       THEN UNCHANGED <<log, token, _auth>>
       ELSE \E answer \in RevocationAnswers :
              /\ log' = Append(log, Req("POST", "REVOKE_PATH", "", token, answer))
              /\ IF answer = "ok"
                 THEN token' = "None" /\ _auth' = <<>>
                 ELSE UNCHANGED <<token, _auth>>
    /\ UNCHANGED <<remote, before, bundle, eval, other, workflow, locals, prev>>

\* lines 87-90: a plugin without token on a connection without header
InitSession ==
    /\ intents = [t \in Targets |-> Absent]
    /\ catalog = {}
    /\ InitCall

NextSession ==
    \/ login
    \/ logout

SpecSession == InitSession /\ [][NextSession]_vars

TypeOK ==
    /\ intents \in [Targets -> RemoteIntents]
    /\ catalog \subseteq Versions
    /\ callNo \in 0..MaxCalls
    /\ changed \in BOOLEAN
    /\ result.failed \in BOOLEAN

(***************************************************************************)
(* Properties                                                              *)
(***************************************************************************)
IsAdd == args.operation = "add_intent"
IsDelete == args.operation = "delete_intent"
IsDeleteType == args.operation = "delete_intent_type"
Returned == pc = "done" /\ ~result.failed
OperationFailed == pc = "done" /\ result.failed
                   /\ result.msg \in {"IBN audit failed", "IBN synchronize failed"}
\* positions of the requests of one kind in a log
Sent(l, method, path) == {i \in 1..Len(l) : l[i].method = method /\ l[i].path = path}
\* what a read of a present intent returns
ReadBack(rec) == intent_get("ok", rec)

\* C1: from an absent intent, a first add_intent (no perform) issues exactly one
\* write, the create with the full intent document, and returns changed=true;
\* the identical second call issues no write and returns changed=false, and the
\* remote intents are the same after both calls.
C1_CreateThenNoOp ==
    (IsAdd /\ args.perform = "none" /\ Returned) =>
        /\ ~before[args.target].present =>
             /\ Cardinality(WritesOf(log)) = 1
             /\ \E i \in WritesOf(log) :
                  log[i] = Req("POST", "IBN_DATA", args.target,
                               [target |-> args.target,
                                intent_type_version |-> args.version,
                                intent_specific_data |-> args.config,
                                required_network_state |-> args.desired_state], "ok")
             /\ "changed" \in result.keys /\ result.changed
             /\ intents[args.target] =
                  Intent(args.version, args.config, args.desired_state)
        /\ (prev.valid /\ ~prev.result.failed /\ ~prev.before[args.target].present) =>
             /\ WritesOf(log) = {}
             /\ "changed" \in result.keys /\ ~result.changed
             /\ intents = before

C1_Witness ==
    /\ IsAdd /\ args.perform = "none" /\ Returned
    /\ prev.valid /\ ~prev.result.failed /\ ~prev.before[args.target].present
    /\ prev.result.changed /\ ~result.changed
    /\ Len(log) = 1

\* C2: whatever the remote intent was, after an add_intent call that succeeded
\* the identical next call issues no write and returns changed=false.
C2_Convergence ==
    (IsAdd /\ prev.valid /\ ~prev.result.failed) =>
        /\ WritesOf(log) = {}
        /\ intents = before
        /\ Returned => ("changed" \in result.keys /\ ~result.changed
                        /\ result.msg = "unchanged")

C2_Witness ==
    /\ IsAdd /\ Returned /\ prev.valid /\ ~prev.result.failed
    /\ prev.before[args.target].present
    /\ prev.before[args.target].state = "unset"
    /\ Cardinality(WritesOf(prev.log)) = 2
    /\ ~result.changed

\* C3: delete_intent_type without force deletes the catalog entry only if no
\* intent of that (intent_type, version) exists remotely, also when the search
\* request fails.
C3_FailClosed ==
    (IsDeleteType /\ ~args.force
       /\ \E i \in Sent(log, "DELETE", "catalog") : Ok(log[i])) =>
        Matching(args.version) = <<>>

\* C4: delete_intent_type without force, when the search returns at least one
\* intent, fails with a message carrying the number found and issues no write.
C4_RefuseWithCount ==
    (IsDeleteType /\ ~args.force
       /\ (\E i \in Sent(log, "POST", "SEARCH_INTENTS") : Ok(log[i]))
       /\ Page0(Matching(args.version)) # <<>>) =>
        /\ pc = "done" /\ result.failed
        /\ result.msg = "has intents"
        /\ result.count = Len(Page0(Matching(args.version)))
        /\ WritesOf(log) = {}
        /\ intents = before
        /\ args.version \in catalog

C4_Witness ==
    /\ IsDeleteType /\ ~args.force /\ pc = "done"
    /\ result.msg = "has intents" /\ result.count = 1
    /\ Len(log) = 2

\* C5: delete_intent_type with force issues one DELETE per intent the search
\* returned, all before the catalog DELETE; at the first intent DELETE that
\* fails the call fails at once, with no further intent DELETE and no catalog
\* DELETE, and the catalog entry is still present.
C5_CascadeThenCatalog ==
    (IsDeleteType /\ args.force) =>
        LET dels == Sent(log, "DELETE", "intent")
            cats == Sent(log, "DELETE", "catalog")
            first == Len(log) - Cardinality(dels) - Cardinality(cats)
        IN  /\ Cardinality(dels) <= Len(targets)
            /\ \A i \in dels : log[i].target = targets[i - first]
            /\ \A c \in cats :
                 /\ c = Len(log)
                 /\ Cardinality(dels) = Len(targets)
                 /\ \A i \in dels : i < c /\ Ok(log[i])
            /\ \A i \in dels : ~Ok(log[i]) =>
                 /\ i = Len(log)
                 /\ pc = "done" /\ result.failed
                 /\ result.msg = "Failed to delete intent"
                 /\ args.version \in catalog
            /\ (Returned /\ result.msg = "deleted") =>
                 (cats # {} /\ args.version \notin catalog)

C5_Witness ==
    /\ IsDeleteType /\ args.force /\ pc = "done"
    /\ Len(targets) = 2 /\ idx = 1
    /\ result.failed /\ result.msg = "Failed to delete intent"
    /\ Sent(log, "DELETE", "catalog") = {}
    /\ intents[targets[2]].present

\* C6: when the writes of add_intent succeeded and the requested operation
\* then reports an error, the call fails, nothing is written after the
\* operation, and a read finds the intent present with the config just written.
C6_NoRollback ==
    (IsAdd /\ OperationFailed /\ WritesOf(log) # {}) =>
        LET n == Len(log)
            configWrites == Sent(log, "POST", "IBN_DATA")
                              \cup Sent(log, "PUT", "intent-specific-data")
        IN  /\ log[n].method = "POST" /\ log[n].path = args.perform
            /\ Cardinality(Sent(log, "POST", args.perform)) = 1
            /\ \A i \in WritesOf(log) : i < n /\ Ok(log[i])
            /\ intents[args.target].present
            /\ configWrites # {} => ReadBack(intents[args.target]).data = args.config
            /\ _config_equal(ReadBack(intents[args.target]).data, args.config)
            /\ ~state_changed(ReadBack(intents[args.target]).state, args.desired_state)

C6_Witness ==
    /\ IsAdd /\ OperationFailed /\ args.perform = "synchronize"
    /\ ~before[args.target].present
    /\ Sent(log, "POST", "IBN_DATA") # {}
    /\ intents[args.target].present

\* C7: when add_intent fails because the operation reported an error after a
\* write, the failure result carries changed=true exactly when a create, config
\* update or state patch was issued in the call.
C7_FailureReportsChange ==
    (IsAdd /\ OperationFailed) => result.changed = (WritesOf(log) # {})

\* C8: on an existing intent add_intent issues the PUT of intent-specific-data
\* exactly when the config differs and the PATCH of required-network-state
\* alone exactly when the state differs, no other write; the field that did not
\* differ is left as it was, and changed=true exactly when a write was issued.
C8_TargetedWrites ==
    (IsAdd /\ before[args.target].present /\ Len(log) >= 1 /\ Ok(log[1])) =>
        LET was == before[args.target]
            dc == ~_config_equal(ReadBack(was).data, args.config)
            sc == (IF was.state = "unset" THEN "active" ELSE was.state)
                     # args.desired_state
            puts == Sent(log, "PUT", "intent-specific-data")
            patches == Sent(log, "PATCH", "intent")
            finished == pc \in {"add_intent:perform", "done"}
                        /\ \A i \in WritesOf(log) : Ok(log[i])
        IN  /\ WritesOf(log) = puts \cup patches
            /\ Cardinality(puts) <= 1 /\ Cardinality(patches) <= 1
            /\ \A i \in puts : dc /\ log[i].target = args.target
                                  /\ log[i].body = [intent_specific_data |-> args.config]
            /\ \A i \in patches : sc /\ log[i].target = args.target
                                     /\ log[i].body =
                                          [required_network_state |-> args.desired_state]
            /\ \A i \in puts : \A j \in patches : i < j
            /\ finished => ((puts # {}) = dc /\ (patches # {}) = sc)
            /\ ~dc => intents[args.target].data = was.data
            /\ ~sc => intents[args.target].state = was.state
            /\ intents[args.target].version = was.version
            /\ \A t \in Targets \ {args.target} : intents[t] = before[t]
            /\ Returned => ("changed" \in result.keys
                            /\ result.changed = (WritesOf(log) # {}))

C8_Witness ==
    /\ IsAdd /\ Returned /\ before[args.target].present
    /\ Sent(log, "PUT", "intent-specific-data") = {}
    /\ Sent(log, "PATCH", "intent") # {}
    /\ before[args.target].data = CfgEnableReordered /\ args.config = CfgEnable
    /\ intents[args.target].data = CfgEnableReordered
    /\ result.changed

\* C9: when the remote intent exists, its config equals the desired config and
\* its required-network-state ("active" when missing) equals the desired
\* state, add_intent issues no write and returns changed=false.
C9_NoWriteWhenEqual ==
    (IsAdd /\ before[args.target].present
       /\ _config_equal(before[args.target].data, args.config)
       /\ (IF before[args.target].state = "unset" THEN "active"
           ELSE before[args.target].state) = args.desired_state) =>
        /\ WritesOf(log) = {}
        /\ intents = before
        /\ Returned => ("changed" \in result.keys /\ ~result.changed
                        /\ result.msg = "unchanged")

C9_Witness ==
    /\ IsAdd /\ Returned /\ ~prev.valid
    /\ before[args.target].present
    /\ before[args.target].state = "unset" /\ args.desired_state = "active"
    /\ before[args.target].data = CfgEnableReordered /\ args.config = CfgEnable
    /\ ~result.changed /\ Len(log) = 1

\* C10: delete_intent on an absent intent succeeds with changed=false and sends
\* nothing but the one existence read, also with remove_from_network; deleting
\* the same intent twice gives changed=true, then changed=false.
C10_DeleteAbsent ==
    /\ (IsDelete /\ ~before[args.target].present) =>
         /\ Len(log) <= 1
         /\ \A i \in 1..Len(log) : log[i].method = "GET" /\ log[i].path = "intent"
         /\ intents = before
         /\ (pc = "done" /\ log[1].rsp \in {"exc_404", "body_not_found"}) =>
              /\ ~result.failed
              /\ "changed" \in result.keys /\ ~result.changed
              /\ result.msg = "already absent"
    /\ (IsDelete /\ Returned /\ prev.valid /\ ~prev.result.failed
          /\ prev.result.changed) =>
         /\ ~result.changed
         /\ Len(log) = 1

C10_Witness ==
    /\ IsDelete /\ Returned /\ args.remove_from_network
    /\ prev.valid /\ ~prev.result.failed /\ prev.result.changed
    /\ Len(prev.log) = 4
    /\ ~result.changed /\ Len(log) = 1 /\ log[1].rsp = "body_not_found"

\* C11: delete_intent with remove_from_network on a present intent sends, in
\* this order, the PATCH of required-network-state to "delete", one synchronize
\* and the DELETE; when the synchronize reports an error the call fails, the
\* DELETE is never sent and the intent stays present in state "delete".
C11_RemoveFromNetwork ==
    (IsDelete /\ args.remove_from_network /\ before[args.target].present
       /\ Len(log) >= 1 /\ Ok(log[1])) =>
        /\ Len(log) <= 4
        /\ Len(log) >= 2 =>
             /\ log[2].method = "PATCH" /\ log[2].path = "intent"
             /\ log[2].target = args.target
             /\ log[2].body = [required_network_state |-> "delete"]
        /\ Len(log) >= 3 =>
             /\ Ok(log[2])
             /\ log[3].method = "POST" /\ log[3].path = "synchronize"
             /\ log[3].target = args.target
        /\ Len(log) >= 4 =>
             /\ Ok(log[3])
             /\ log[4].method = "DELETE" /\ log[4].path = "intent"
             /\ log[4].target = args.target
        /\ (Len(log) >= 3 /\ log[3].rsp \in {"error_body", "exc"}) =>
             /\ Len(log) = 3
             /\ pc = "done" /\ result.failed
             /\ result.msg = "IBN synchronize failed"
             /\ intents[args.target].present
             /\ intents[args.target].state = "delete"
        /\ Returned =>
             /\ Len(log) = 4 /\ Ok(log[4])
             /\ ~intents[args.target].present
             /\ result.changed

C11_Witness ==
    /\ IsDelete /\ args.remove_from_network /\ pc = "done"
    /\ Len(log) = 3 /\ log[3].rsp = "error_body"
    /\ before[args.target].state = "active"
    /\ intents[args.target].present /\ intents[args.target].state = "delete"
    /\ result.failed

\* C12: a successful result has changed=true only when a remote resource was
\* created, updated or deleted in the call; in particular delete_intent_type
\* on an intent-type that is already absent reports changed=false.
C12_ChangedOnlyWhenWritten ==
    (Returned /\ result.changed) => \E i \in WritesOf(log) : Ok(log[i])

RECURSIVE KeyPermuted(_, _)
KeyPermuted(a, b) ==
    IF a.t # b.t THEN FALSE
    ELSE IF a.t = "dict"
         THEN /\ Len(a.v) = Len(b.v)
              /\ \A i \in 1..Len(a.v) : \E j \in 1..Len(b.v) :
                     a.v[i][1] = b.v[j][1] /\ KeyPermuted(a.v[i][2], b.v[j][2])
    ELSE IF a.t = "list"
         THEN /\ Len(a.v) = Len(b.v)
              /\ \A i \in 1..Len(a.v) : KeyPermuted(a.v[i], b.v[i])
    ELSE a = b

\* the documents differ in the order of unequal elements of some sequence, at any
\* depth, and besides that at most in the order of mapping keys
RECURSIVE SeqReordered(_, _)
SeqReordered(a, b) ==
    IF a.t # b.t THEN FALSE
    ELSE IF a.t = "list"
         THEN /\ Len(a.v) = Len(b.v)
              /\ \/ /\ \E p \in Permutations(1..Len(a.v)) :
                           \A i \in 1..Len(a.v) : KeyPermuted(a.v[p[i]], b.v[i])
                    /\ \E i \in 1..Len(a.v) : ~_config_equal(a.v[i], b.v[i])
                 \/ /\ \E i \in 1..Len(a.v) : SeqReordered(a.v[i], b.v[i])
                    /\ \A i \in 1..Len(a.v) : \/ SeqReordered(a.v[i], b.v[i])
                                              \/ KeyPermuted(a.v[i], b.v[i])
    ELSE IF a.t = "dict"
         THEN /\ Len(a.v) = Len(b.v)
              /\ \A i \in 1..Len(a.v) : \E j \in 1..Len(b.v) :
                     /\ a.v[i][1] = b.v[j][1]
                     /\ \/ SeqReordered(a.v[i][2], b.v[j][2])
                        \/ KeyPermuted(a.v[i][2], b.v[j][2])
              /\ \E i \in 1..Len(a.v) : \E j \in 1..Len(b.v) :
                     a.v[i][1] = b.v[j][1] /\ SeqReordered(a.v[i][2], b.v[j][2])
    ELSE FALSE

Compared == eval.fn = "_config_equal" /\ eval.st # "call"

\* C14: _config_equal is insensitive to the order of mapping keys at every
\* nesting level and sensitive to the order of sequences: documents that differ
\* only in key order compare equal, documents that differ in the order of
\* unequal elements of a sequence compare unequal; {a:1,b:2} equals {b:2,a:1}
\* and [1,2] does not equal [2,1].
C14_KeyOrderNotSequenceOrder ==
    Compared =>
        /\ eval.st = "return"
        /\ KeyPermuted(eval.a, eval.b) => eval.ret
        /\ SeqReordered(eval.a, eval.b) => ~eval.ret
        /\ (eval.a = Dict12 /\ eval.b = Dict21) => eval.ret
        /\ (eval.a = List12 /\ eval.b = List21) => ~eval.ret

C14_Witness ==
    /\ Compared
    /\ eval.a = PyDict(<< <<"description", PyInt(1)>>, <<"mtu", PyList(<<Dict12>>)>> >>)
    /\ eval.b = PyDict(<< <<"mtu", PyList(<<Dict21>>)>>, <<"description", PyInt(1)>> >>)
    /\ eval.ret

\* C15: _config_equal is sensitive to scalar type: two scalars of different
\* types (the integer 1 and the boolean true, the integer 1 and the string "1")
\* compare unequal.
C15_ScalarTypeSensitive ==
    (/\ Compared
     /\ eval.a.t \in {"bool", "int", "str"} /\ eval.b.t \in {"bool", "int", "str"}
     /\ eval.a.t # eval.b.t) => (eval.st = "return" /\ ~eval.ret)

\* C16: _config_equal returns a boolean without raising for all nested
\* documents of null, booleans, numbers, strings, sequences and string-keyed
\* mappings, and never takes an empty mapping to be equal to null.
C16_TotalAndEmptyIsNotNull ==
    Compared =>
        /\ eval.st = "return"
        /\ eval.ret \in BOOLEAN
        /\ ({eval.a, eval.b} = {PyDict(<<>>), PyNone}) => ~eval.ret

C16_Witness ==
    /\ Compared /\ eval.st = "return"
    /\ eval.a = PyDict(<<>>) /\ eval.b = PyNone
    /\ ~eval.ret

\* the payload a text is the JSON text of (plain or inside a byte-string literal)
Envelope(data) == IF data.t = "str" THEN data.of ELSE data
\* an error envelope as the remote sends it: a list of entries under "error"
WellFormed(p) ==
    /\ p.t = "dict" /\ p.key \in {"ietf-restconf:errors", "errors"}
    /\ p.errors.t = "dict" /\ p.errors.error.t = "list"
    /\ \A i \in 1..Len(p.errors.error.v) : p.errors.error.v[i].t = "dict"
Entries(p) == p.errors.error.v

\* C17: parse_restconf_error never raises; for a payload or a text holding an
\* error envelope it returns the error-message of the first entry that carries
\* one, and it returns null when the input holds no recognizable envelope,
\* raw text that is not an envelope included.
C17_ParseRestconfError ==
    (eval.fn = "parse_restconf_error" /\ eval.st # "call") =>
        /\ eval.st = "return"
        /\ (eval.data.t = "str" /\ eval.data.form = "plain") => eval.ret = PyNone
        /\ (eval.data.t # "str" \/ eval.data.form \in {"json", "bytes"}) =>
             LET p == Envelope(eval.data)
             IN  IF WellFormed(p) /\ \E i \in 1..Len(Entries(p)) : Entries(p)[i].message # <<>>
                 THEN \E i \in 1..Len(Entries(p)) :
                        /\ eval.ret = [t |-> "str", form |-> "plain", v |-> Entries(p)[i].message]
                        /\ \A j \in 1..(i - 1) : Entries(p)[j].message = <<>>
                 ELSE p.t # "dict" => eval.ret = PyNone

\* the not-found policy: an entry's message contains "not found" or "404", or
\* an entry's error tag is "invalid-value"
NotFoundPolicy(p) ==
    \E i \in 1..Len(Entries(p)) :
        \/ Contains(Entries(p)[i].message, "not found")
        \/ Contains(Entries(p)[i].message, "404")
        \/ Entries(p)[i].tag = "invalid-value"

\* C18: intent_get and _resource_exists take a remote error envelope for
\* not-found exactly when the not-found policy says so, whether the envelope
\* arrives as a parsed response body or inside a transport exception.
C18_OneNotFoundPolicy ==
    (/\ eval.fn \in {"intent_get", "_resource_exists"} /\ eval.st # "call"
     /\ WellFormed(eval.data)) =>
        ((eval.st = "return" /\ eval.ret = "not_found") <=> NotFoundPolicy(eval.data))

IsUpload == args.operation = "upload_intent_type"

\* what the bundle lacks: both script files, the yang-modules folder or a
\* module file in it, a parsable meta-info.json with intent-type and version
LacksScript(b) == ~b.script_js /\ ~b.script_mjs
LacksYang(b) == b.yang # "modules"
LacksMeta(b) == b.meta # "ok"

\* C19: upload_intent_type fails with no remote request issued whenever the
\* bundle lacks both script-content.js and script-content.mjs, or the
\* yang-modules folder or a module file in it, or a parsable meta-info.json
\* with intent-type and version.
C19_LocalValidationFirst ==
    (/\ IsUpload /\ pc # "upload:local"
     /\ LacksScript(bundle) \/ LacksYang(bundle) \/ LacksMeta(bundle)) =>
        (pc = "done" /\ result.failed /\ log = <<>>)

C19_Witness ==
    /\ IsUpload /\ pc = "done" /\ result.failed /\ log = <<>>
    /\ bundle.path = "directory" /\ bundle.meta = "ok" /\ bundle.script_mjs
    /\ bundle.yang = "hidden"
    /\ result.msg = "No YANG files found in yang-modules"

\* a write request that the remote refused or the transport lost
FailedWrites(l) == {i \in WritesOf(l) : ~Ok(l[i])}
\* the failure of request i ended the call
Fatal(i) == i = Len(log) /\ pc = "done" /\ result.failed
\* the create of a bundled intent by upload_intent_type
IsBundledCreate(r) == IsUpload /\ r.method = "POST" /\ r.path = "IBN_DATA"

\* C20 as stated: in each of the four operations every failed write request
\* ends the call in failure; no failed write is followed by a further request
\* or by a success result.
C20_EveryWriteFailureFatal ==
    \A i \in FailedWrites(log) : Fatal(i)

\* C20, amended: every failed write request ends the call in failure, except
\* the create of a bundled intent in upload_intent_type, whose failure is
\* followed by the PUT of that intent's intent-specific-data; a failure of
\* that PUT ends the call in failure.
C20_WriteFailureFatalButBundledCreate ==
    \A i \in FailedWrites(log) :
        IF IsBundledCreate(log[i])
        THEN /\ i = Len(log) => pc = "upload:intent_put"
             /\ i < Len(log) =>
                  /\ log[i + 1].method = "PUT" /\ log[i + 1].path = "intent-specific-data"
                  /\ log[i + 1].target = log[i].target
        ELSE Fatal(i)

C20_Witness ==
    /\ IsUpload /\ Returned
    /\ \E i \in FailedWrites(log) :
         /\ IsBundledCreate(log[i])
         /\ i < Len(log) /\ Ok(log[i + 1]) /\ log[i + 1].path = "intent-specific-data"

\* the identity of the resource a write request is about
Identity(r) == IF r.path \in {"catalog", "CATALOG_ROOT"} THEN {"intent_type", "version"}
               ELSE {"target", "intent_type"}
\* the primary writes: intent create, config update, state patch, intent
\* delete, catalog write, catalog delete
IsPrimaryWrite(r) == IsWrite(r) /\ r.path # "VIEW_CONFIG"

\* C21: whenever a primary write fails with a remote error, the failure
\* message includes the identity of the resource: target and intent_type for
\* an intent, intent_type and version for an intent-type.
C21_FailureNamesResource ==
    (/\ pc = "done" /\ result.failed /\ log # <<>>
     /\ IsPrimaryWrite(log[Len(log)]) /\ ~Ok(log[Len(log)])) =>
        Identity(log[Len(log)]) \subseteq msg_fields(result.msg)

\* an invocation (the running one or the other one) returned success
Succeeded(f) == f.pc = "done" /\ ~f.result.failed
\* it wrote its config: a create or a PUT of intent-specific-data that the
\* remote accepted
WroteConfig(f) ==
    \E i \in 1..Len(f.log) :
        /\ f.log[i].path \in {"IBN_DATA", "intent-specific-data"}
        /\ f.log[i].method \in {"POST", "PUT"} /\ Ok(f.log[i])
Running == [pc |-> pc, args |-> args, log |-> log, result |-> result]
\* one invocation returned success with changed=true, and the remote intent
\* holds the config of the other invocation
LostUpdate(f, g) ==
    /\ Succeeded(f) /\ Succeeded(g)
    /\ f.result.changed /\ WroteConfig(f)
    /\ ~_config_equal(f.args.config, g.args.config)
    /\ _config_equal(intents[f.args.target].data, g.args.config)

IsCatalogWrite(r) == IsWrite(r) /\ r.path \in {"catalog", "CATALOG_ROOT"}
CatalogWrites(l) == {i \in 1..Len(l) : IsCatalogWrite(l[i])}

\* C23: in upload_intent_type a catalog write is the request right after the
\* existence check (the GET of the catalog entry) and there is no second one:
\* it is the POST to the catalog root when the check reported the entry absent
\* and the PUT to the entry otherwise; a successful call has issued exactly one.
C23_OneCatalogWrite ==
    IsUpload =>
        /\ Cardinality(CatalogWrites(log)) <= 1
        /\ \A i \in CatalogWrites(log) :
              /\ i = 2
              /\ log[1].method = "GET" /\ log[1].path = "catalog"
              /\ ~_resource_exists(log[1].rsp).raised
              /\ IF _resource_exists(log[1].rsp).exists
                 THEN log[i].method = "PUT" /\ log[i].path = "catalog"
                 ELSE log[i].method = "POST" /\ log[i].path = "CATALOG_ROOT"
        /\ Returned => Cardinality(CatalogWrites(log)) = 1 /\ Ok(log[2])

\* both branches have been taken by successful calls
C23_Witness ==
    /\ IsUpload /\ Returned
    /\ log[2].method = "PUT" /\ log[2].path = "catalog"
    /\ prev.valid /\ ~prev.result.failed
    /\ prev.log[2].method = "POST" /\ prev.log[2].path = "CATALOG_ROOT"

\* the requests of an upload after the catalog write
IsViewWrite(r) == r.method = "PATCH" /\ r.path = "VIEW_CONFIG"
IsBundledPut(r) == r.method = "PUT" /\ r.path = "intent-specific-data"
ViewWrites(l, v) == {i \in 1..Len(l) : IsViewWrite(l[i]) /\ l[i].body.view = v}
Creates(l, tgt) == {i \in 1..Len(l) : IsBundledCreate(l[i]) /\ l[i].target = tgt}
BundledPuts(l, tgt) == {i \in 1..Len(l) : IsBundledPut(l[i]) /\ l[i].target = tgt}
BundledTargets == {bundle.intents[k] : k \in 1..Len(bundle.intents)}

\* C24: in upload_intent_type every view or intent write follows a catalog
\* write that succeeded; each view-config file gets at most one PATCH and,
\* in a successful call, exactly one; each intent file gets one create, and a
\* PUT of only its intent-specific-data is issued exactly when that create
\* failed, right after it.
C24_ViewsAndIntentsAfterCatalog ==
    IsUpload =>
        /\ \A i \in 1..Len(log) :
              (IsViewWrite(log[i]) \/ IsBundledCreate(log[i]) \/ IsBundledPut(log[i])) =>
                  \E j \in 1..(i - 1) : IsCatalogWrite(log[j]) /\ Ok(log[j])
        /\ \A v \in 1..bundle.views :
              /\ Cardinality(ViewWrites(log, v)) <= 1
              /\ Returned => Cardinality(ViewWrites(log, v)) = 1
        /\ \A i \in 1..Len(log) : IsViewWrite(log[i]) => log[i].body.view \in 1..bundle.views
        /\ \A tgt \in Targets :
              /\ Cardinality(Creates(log, tgt)) <= 1
              /\ Cardinality(BundledPuts(log, tgt)) <= 1
              /\ (Creates(log, tgt) # {}) => tgt \in BundledTargets
              /\ (Returned /\ tgt \in BundledTargets) => Creates(log, tgt) # {}
              /\ \A i \in BundledPuts(log, tgt) :
                    i - 1 \in Creates(log, tgt) /\ ~Ok(log[i - 1])
              /\ \A i \in Creates(log, tgt) :
                    /\ log[i].body.intent_specific_data = CfgDisable
                    /\ (~Ok(log[i]) /\ (i < Len(log) \/ pc = "done")) =>
                           i + 1 \in BundledPuts(log, tgt)

\* a successful upload of two views and two intents, one created and one
\* updated after its create failed
C24_Witness ==
    /\ IsUpload /\ Returned
    /\ bundle.views = 2 /\ Len(bundle.intents) = 2
    /\ \E tgt \in BundledTargets : BundledPuts(log, tgt) # {}
    /\ \E tgt \in BundledTargets : BundledPuts(log, tgt) = {}

\* the logical step a request belongs to: what is done to which resource
StepOf(r) == <<r.method, r.path, r.target, IF IsViewWrite(r) THEN r.body.view ELSE 0>>

\* C25: within one invocation of add_intent, delete_intent, delete_intent_type
\* or upload_intent_type no two requests belong to the same logical step: the
\* existence read, each write, each audit/synchronize action and the search
\* are sent at most once, so a request that failed is never sent again.
C25_NoRetry ==
    \A i \in 1..Len(log) : \A j \in 1..Len(log) :
        i < j => StepOf(log[i]) # StepOf(log[j])

\* an invocation that went on after a failed request, and one that ended on it
C25_Witness ==
    /\ pc = "done" /\ Len(log) >= 3
    /\ ~Ok(log[Len(log)]) /\ result.failed
    /\ prev.valid /\ \E i \in 1..Len(prev.log) : i < Len(prev.log) /\ prev.log[i].rsp = "exc"

\* the requests of the post-apply operation the caller asked for
Operations(l) == Sent(l, "POST", "audit") \cup Sent(l, "POST", "synchronize")

\* C30: an add_intent with perform "audit" or "synchronize" sends the request
\* of that operation, and of no other, at most once, as the last request of the
\* call and after writes that all succeeded; when the call has ended and its
\* read did not raise and none of its writes failed, the request has been
\* sent, also when the call had nothing to write.
C30_PerformOnceAfterWrites ==
    (IsAdd /\ args.perform \in {"audit", "synchronize"}) =>
        /\ Cardinality(Operations(log)) <= 1
        /\ \A i \in Operations(log) :
              /\ log[i].path = args.perform /\ log[i].target = args.target
              /\ i = Len(log)
              /\ \A j \in WritesOf(log) : j < i /\ Ok(log[j])
        /\ (/\ pc = "done"
            /\ ~intent_get(log[1].rsp, before[args.target]).raised
            /\ \A j \in WritesOf(log) : Ok(log[j])) =>
               Cardinality(Operations(log)) = 1

\* the operation after both writes, and in an earlier call after no write
C30_Witness ==
    /\ IsAdd /\ Returned /\ args.perform = "synchronize"
    /\ Len(log) = 2 /\ log[2].path = "synchronize"
    /\ prev.valid /\ ~prev.result.failed /\ Len(prev.log) = 4
    /\ prev.log[2].method = "PUT" /\ prev.log[3].method = "PATCH"
    /\ prev.log[4].path = "synchronize"

\* the wfm module's operations and requests
IsWfm == args.operation \in {"define", "upload", "execute", "delete"}
IsDefine == args.operation \in {"define", "upload"}
StatusPuts(l, st) ==
    {i \in 1..Len(l) : l[i].method = "PUT" /\ l[i].path = "workflow/id/status"
                       /\ l[i].body = st}

\* C26: a define or upload in normal mode whose requests were all accepted has,
\* when it ends, set status=PUBLISHED after every other status or definition
\* request: an update of the definition lies between a status=DRAFT and the
\* status=PUBLISHED, a create before the status=PUBLISHED, and the workflow
\* is left PUBLISHED with the definition of the call.
C26_DefineLifecycle ==
    (/\ IsDefine /\ ~args.check_mode
     /\ pc = "done" /\ log # <<>>
     /\ \A i \in 1..Len(log) : Ok(log[i])) =>
        /\ \E p \in StatusPuts(log, "PUBLISHED") :
              /\ \A d \in StatusPuts(log, "DRAFT") : d < p
              /\ \A u \in Sent(log, "PUT", "workflow/id/definition") :
                    u < p /\ \E d \in StatusPuts(log, "DRAFT") : d < u
              /\ \A c \in Sent(log, "POST", "workflow/definition") : c < p
        /\ workflow.present
        /\ workflow.status = "PUBLISHED"
        /\ workflow.definition = args.definition

\* C27: in check mode the wfm module leaves the remote workflow as it is, and
\* the only requests it sends are the validate request for define and upload
\* and the lookup of the name for execute and delete: no create, no status,
\* definition, README or UI-schema update, no execution, no DELETE.
C27_CheckModeChangesNothing ==
    /\ []((IsWfm /\ args.check_mode) =>
            \A i \in 1..Len(log) :
                IF IsDefine
                THEN log[i].method = "POST" /\ log[i].path = "workflow/validate"
                ELSE log[i].method = "GET" /\ log[i].path = "workflow")
    /\ [][(args'.operation \in {"define", "upload", "execute", "delete"}
           /\ args'.check_mode) => workflow' = workflow]_vars

\* a delete in check mode that reported what it would do
C27_Witness ==
    /\ args.operation = "delete" /\ args.check_mode /\ args.identifier = "uuid"
    /\ Returned /\ result.changed /\ result.msg = "Would delete workflow"
    /\ log = <<>> /\ workflow.present

\* C28: a delete of the wfm module sends the DELETE of the workflow only after
\* a request that set the workflow's status to DRAFT.
C28_DraftBeforeDelete ==
    (IsWfm /\ args.operation = "delete") =>
        \A i \in Sent(log, "DELETE", "workflow/id") :
            \E d \in StatusPuts(log, "DRAFT") : d < i

\* the status the request of a rest call was answered with
IsRest == args.operation = "rest"
Answered(st) == IsRest /\ pc = "done" /\ log # <<>> /\ log[1].body.status = st

\* C29: a call of the rest module whose DELETE was answered with 404 does not
\* fail, and a call whose request was answered with any other status outside
\* 2xx fails.
C29_Delete404IsSuccess ==
    \A st \in Statuses :
        Answered(st) =>
            /\ (args.method = "DELETE" /\ st = 404) => ~result.failed
            /\ (st \notin 200..299 /\ ~(args.method = "DELETE" /\ st = 404)) => result.failed

\* C31: when the read of add_intent or delete_intent ends in a transport error
\* that is not taken for "not found", the call ends right there in failure:
\* the read is its only request, no write follows, and the remote intents are
\* as they were, so an intent that could not be read is not created again.
C31_ReadErrorPropagates ==
    ((IsAdd \/ IsDelete) /\ log # <<>> /\ log[1].rsp = "exc_other") =>
        /\ pc = "done" /\ result.failed
        /\ Len(log) = 1 /\ WritesOf(log) = {}
        /\ intents = before

\* the read of a present intent failed and the call ended with main's message
C31_Witness ==
    /\ IsAdd /\ pc = "done" /\ result.failed
    /\ log # <<>> /\ log[1].rsp = "exc_other"
    /\ intents[args.target].present
    /\ result.msg = "IBN module error"

\* C32: a delete_intent with remove_from_network=false sends neither the PATCH
\* of required-network-state nor a synchronize; on a present intent a
\* successful call has issued exactly one write, the DELETE of the intent,
\* returns changed=true and leaves the intent absent.
C32_PlainDelete ==
    (IsDelete /\ ~args.remove_from_network) =>
        /\ Sent(log, "PATCH", "intent") = {}
        /\ Sent(log, "POST", "synchronize") = {}
        /\ (Returned /\ before[args.target].present) =>
              /\ WritesOf(log) = {2}
              /\ log[2] = Req("DELETE", "intent", args.target, PyNone, "ok")
              /\ result.changed
              /\ ~intents[args.target].present

C32_Witness ==
    /\ IsDelete /\ ~args.remove_from_network
    /\ Returned /\ before[args.target].present
    /\ Len(log) = 2 /\ log[2].method = "DELETE" /\ result.changed

\* the entries of a well-formed envelope that carry an error-message
WithMessage(p) == {i \in 1..Len(Entries(p)) : Entries(p)[i].message # <<>>}

\* C33: for a failed audit or synchronize whose error envelope arrives in a 2xx
\* body or inside the exception of the transport, the failure message reports
\* the error-message of the first entry that carries one, and the raw error
\* only when no entry carries a message.
C33_OperationErrorMessage ==
    (/\ eval.fn = "_fail_on_operation_error" /\ eval.st # "call"
     /\ WellFormed(eval.data)) =>
        /\ eval.st = "return"
        /\ IF WithMessage(eval.data) # {}
           THEN \E i \in WithMessage(eval.data) :
                  /\ \A j \in WithMessage(eval.data) : i <= j
                  /\ eval.ret = [t |-> "str", form |-> "plain",
                                 v |-> Entries(eval.data)[i].message]
           ELSE eval.ret.t = "str" /\ eval.ret.form \in {"repr", "bytes"}
                /\ eval.ret.of = eval.data

\* C34: a delete_intent_type whose existence check was answered with "not
\* found" ends right there in success: the check is its only request, neither
\* the search nor a DELETE is sent, and intents and catalog are as they were,
\* with force=true too.
C34_AbsentTypeIsSatisfied ==
    (/\ IsDeleteType /\ log # <<>>
     /\ log[1].rsp \in {"exc_404", "body_not_found"}) =>
        /\ Returned
        /\ Len(log) = 1
        /\ Sent(log, "POST", "SEARCH_INTENTS") = {} /\ WritesOf(log) = {}
        /\ intents = before
        /\ args.version \notin catalog

\* with force=true and intents of that type and version still on the remote
C34_Witness ==
    /\ IsDeleteType /\ args.force /\ Returned
    /\ Len(log) = 1 /\ log[1].rsp = "exc_404"
    /\ \E t \in Targets : intents[t].present /\ intents[t].version = args.version

\* C35: after a successful add_intent the remote intent exists, its config is
\* structurally equal to the desired config and its required-network-state is
\* the desired state, whatever the remote held before the call.
C35_RemoteMatchesDesired ==
    (IsAdd /\ Returned) =>
        /\ intents[args.target].present
        /\ _config_equal(intents[args.target].data, args.config)
        /\ intents[args.target].state = args.desired_state

\* C36: after a successful add_intent the remote intent's intent-type-version
\* is the version passed to the call, also when the intent existed with
\* another intent-type-version before.
C36_RemoteVersionMatches ==
    (IsAdd /\ Returned) =>
        /\ intents[args.target].present
        /\ intents[args.target].version = args.version

\* C37: _config_equal never takes a mapping to be equal to a sequence: the
\* comparison of a mapping with a sequence returns false.
C37_MappingIsNoSequence ==
    (Compared /\ {eval.a.t, eval.b.t} = {"dict", "list"}) =>
        (eval.st = "return" /\ ~eval.ret)

\* C38: upload_intent_type has read and parsed every local file before its
\* first request: with a view file that cannot be read or an intent file that
\* is no JSON in the folder, no request is ever sent.
C38_AllFilesReadFirst ==
    (IsUpload /\ bundle.broken # "none") => log = <<>>

\* C39: a define of the wfm module in normal mode on a workflow whose stored
\* definition equals the supplied one, with every request accepted, returns
\* changed=false and has sent neither a status=DRAFT nor a definition update.
C39_DefineIsIdempotent ==
    (/\ args.operation = "define" /\ ~args.check_mode /\ args.yaml = "ok"
     /\ workflow.present /\ workflow.definition = args.definition
     /\ pc = "done" /\ log # <<>>
     /\ \A i \in 1..Len(log) : Ok(log[i])) =>
        /\ Returned /\ ~result.changed
        /\ StatusPuts(log, "DRAFT") = {}
        /\ Sent(log, "PUT", "workflow/id/definition") = {}

\* C40: after any sequence of login and logout calls the connection carries
\* an Authorization header exactly when the plugin has a token, and the header
\* is "Bearer" with that token; a logout never raises, sends no request when
\* there is no token, and changes token or header only by clearing both after
\* a revocation request that succeeded.
C40_TokenSession ==
    /\ []((args.operation \in {"login", "logout"} \/ pc = "idle") =>
            /\ (_auth # <<>>) <=> ~not_token(token)
            /\ _auth # <<>> => _auth = Bearer(token))
    /\ [][args'.operation = "logout" =>
            /\ ~result'.failed
            /\ not_token(token) => log' = log
            /\ session' # session =>
                  /\ token' = "None" /\ _auth' = <<>>
                  /\ Len(log') = Len(log) + 1
                  /\ Ok(log'[Len(log')]) /\ log'[Len(log')].path = "REVOKE_PATH"]_vars

=============================================================================
